---- MODULE Spec2Model ----
(***************************************************************************)
(* Website-localization pipeline of hpitta26/Shellhacks-2025.              *)
(*                                                                         *)
(* Two workflows of the repository are modelled in the specification Spec  *)
(* (Init picks the job):                                                   *)
(*   pipeline  fullstack_app/backend/translation_agency/agent.py: router,  *)
(*             fast track or batch organiser, batch loop (translate,       *)
(*             review, revise), apply, output;                             *)
(*   v1        translation_agency/agent.py: initial translator, then the   *)
(*             critic/refiner loop.                                        *)
(*                                                                         *)
(* Every LlmAgent is taken to call its tool once when it runs.  What the   *)
(* generative model does on a call (it raises, or it returns some text) is *)
(* chosen by the action that makes the call.                               *)
(*                                                                         *)
(* A Python str is a sequence of one-character strings, so that len, in,   *)
(* slicing, replace and the regular expressions of the source are computed *)
(* as the source computes them.  Letters with an accent are written as the *)
(* letter followed by a mark inside one element ("o/" is o-acute) and the  *)
(* backquote is written "BT".                                              *)
(***************************************************************************)
EXTENDS Integers, Sequences, FiniteSets, TLC

\* ------------------------------------------------------------------------
\* Python str operations
\* ------------------------------------------------------------------------

LowerMap ==
  ("A" :> "a") @@ ("B" :> "b") @@ ("C" :> "c") @@ ("D" :> "d") @@ ("E" :> "e") @@
  ("F" :> "f") @@ ("G" :> "g") @@ ("H" :> "h") @@ ("I" :> "i") @@ ("J" :> "j") @@
  ("K" :> "k") @@ ("L" :> "l") @@ ("M" :> "m") @@ ("N" :> "n") @@ ("O" :> "o") @@
  ("P" :> "p") @@ ("Q" :> "q") @@ ("R" :> "r") @@ ("S" :> "s") @@ ("T" :> "t") @@
  ("U" :> "u") @@ ("V" :> "v") @@ ("W" :> "w") @@ ("X" :> "x") @@ ("Y" :> "y") @@
  ("Z" :> "z")

WordChars ==
  {"a","b","c","d","e","f","g","h","i","j","k","l","m","n","o","p","q","r","s","t",
   "u","v","w","x","y","z","A","B","C","D","E","F","G","H","I","J","K","L","M","N",
   "O","P","Q","R","S","T","U","V","W","X","Y","Z","0","1","2","3","4","5","6","7",
   "8","9","_","a/","e/","i/","o/","e^"}

Digits == <<"0","1","2","3","4","5","6","7","8","9">>

WhiteSpace == {" ", "\n", "\t"}

Min(a, b) == IF a <= b THEN a ELSE b

\* s.lower()
str_lower(s) == [i \in 1..Len(s) |-> IF s[i] \in DOMAIN LowerMap THEN LowerMap[s[i]] ELSE s[i]]

\* s[:n] for n >= 0
str_prefix(s, n) == SubSeq(s, 1, Min(n, Len(s)))

\* p occurs in s at index i (1-based)
MatchAt(s, i, p) ==
  /\ i >= 1
  /\ i + Len(p) - 1 <= Len(s)
  /\ \A j \in 1..Len(p) : s[i + j - 1] = p[j]

\* p in s
str_in(p, s) == \E i \in 1..(Len(s) - Len(p) + 1) : MatchAt(s, i, p)

\* s.startswith(p)
str_startswith(s, p) == MatchAt(s, 1, p)

\* index of the first occurrence of p in s at or after from, 0 when there is none
str_find(s, p, from) ==
  LET hits == {i \in from..(Len(s) - Len(p) + 1) : MatchAt(s, i, p)}
  IN  IF hits = {} THEN 0 ELSE CHOOSE i \in hits : \A j \in hits : i <= j

RECURSIVE ReplaceFrom(_, _, _, _)
ReplaceFrom(s, p, r, from) ==
  LET i == str_find(s, p, from)
  IN  IF i = 0 THEN SubSeq(s, from, Len(s))
      ELSE SubSeq(s, from, i - 1) \o r \o ReplaceFrom(s, p, r, i + Len(p))

\* s.replace(p, r), p not empty
str_replace(s, p, r) == ReplaceFrom(s, p, r, 1)

\* s.strip()
str_strip(s) ==
  LET keep == {i \in 1..Len(s) : s[i] \notin WhiteSpace}
  IN  IF keep = {} THEN << >>
      ELSE SubSeq(s, CHOOSE i \in keep : \A j \in keep : i <= j,
                     CHOOSE i \in keep : \A j \in keep : i >= j)

\* s.rstrip(c)
RECURSIVE str_rstrip(_, _)
str_rstrip(s, c) ==
  IF Len(s) > 0 /\ s[Len(s)] = c THEN str_rstrip(SubSeq(s, 1, Len(s) - 1), c) ELSE s

\* s.split(c) on a one-character separator
RECURSIVE SplitFrom(_, _, _)
SplitFrom(s, c, from) ==
  LET i == str_find(s, <<c>>, from)
  IN  IF i = 0 THEN <<SubSeq(s, from, Len(s))>>
      ELSE <<SubSeq(s, from, i - 1)>> \o SplitFrom(s, c, i + 1)

str_split(s, c) == SplitFrom(s, c, 1)

\* str(n) for an integer n >= 0
RECURSIVE int_str(_)
int_str(n) == IF n < 10 THEN <<Digits[n + 1]>> ELSE int_str(n \div 10) \o <<Digits[(n % 10) + 1]>>

IsDigits(s) == Len(s) > 0 /\ \A i \in 1..Len(s) : \E d \in 1..10 : Digits[d] = s[i]

\* int(s) for a string of decimal digits
RECURSIVE str_int(_)
str_int(s) ==
  IF Len(s) = 0 THEN 0
  ELSE 10 * str_int(SubSeq(s, 1, Len(s) - 1))
       + ((CHOOSE d \in 1..10 : Digits[d] = s[Len(s)]) - 1)

\* any(keyword in s for keyword in keywords)
any_in(keywords, s) == \E k \in 1..Len(keywords) : str_in(keywords[k], s)

\* ------------------------------------------------------------------------
\* re: literal patterns with re.IGNORECASE, with or without \b on both sides
\* ------------------------------------------------------------------------

IsWordAt(s, k) == k >= 1 /\ k <= Len(s) /\ s[k] \in WordChars

\* \b between s[k] and s[k+1]
WordBoundary(s, k) == IsWordAt(s, k) # IsWordAt(s, k + 1)

ReMatchAt(s, i, p, bounded) ==
  /\ MatchAt(str_lower(s), i, str_lower(p))
  /\ bounded => (WordBoundary(s, i - 1) /\ WordBoundary(s, i + Len(p) - 1))

\* pattern.search(s): index of the leftmost match, 0 when there is none
re_search(s, p, bounded, from) ==
  LET hits == {i \in from..(Len(s) - Len(p) + 1) : ReMatchAt(s, i, p, bounded)}
  IN  IF hits = {} THEN 0 ELSE CHOOSE i \in hits : \A j \in hits : i <= j

RECURSIVE ReSubFrom(_, _, _, _, _)
ReSubFrom(s, p, r, bounded, from) ==
  LET i == re_search(s, p, bounded, from)
  IN  IF i = 0 THEN SubSeq(s, from, Len(s))
      ELSE SubSeq(s, from, i - 1) \o r \o ReSubFrom(s, p, r, bounded, i + Len(p))

\* re.sub(pattern, r, s, flags=re.IGNORECASE) for a literal, non-empty pattern
re_sub(s, p, r, bounded) == ReSubFrom(s, p, r, bounded, 1)


\* ------------------------------------------------------------------------
\* Texts of the source, as sequences of characters
\* ------------------------------------------------------------------------

\* ---- keys and markers
k_type == <<"t","y","p","e">>
k_value == <<"v","a","l","u","e">>
k_plain_text == <<"p","l","a","i","n","_","t","e","x","t">>
FENCE == <<"BT","BT","BT">>
FENCE_JSON == <<"BT","BT","BT","j","s","o","n">>

NAV_KEYWORDS ==
  << <<"n","a","v">>,
     <<"m","e","n","u">>,
     <<"l","i","n","k">>,
     <<"b","r","e","a","d","c","r","u","m","b">> >>
BUTTON_KEYWORDS ==
  << <<"b","u","t","t","o","n">>,
     <<"b","t","n">>,
     <<"c","t","a">>,
     <<"a","c","t","i","o","n">> >>
HEADER_KEYWORDS ==
  << <<"h","e","a","d","e","r">>,
     <<"t","i","t","l","e">>,
     <<"h","e","a","d","i","n","g">>,
     <<"h","1">>,
     <<"h","2">>,
     <<"h","3">> >>
FORM_KEYWORDS ==
  << <<"f","o","r","m">>,
     <<"l","a","b","e","l">>,
     <<"i","n","p","u","t">>,
     <<"f","i","e","l","d">> >>
META_KEYWORDS ==
  << <<"m","e","t","a">>,
     <<"d","e","s","c","r","i","p","t","i","o","n">>,
     <<"k","e","y","w","o","r","d","s">>,
     <<"s","e","o">> >>
ambiguous_patterns ==
  << <<"p","l","a","y">>,
     <<"r","u","n">>,
     <<"b","a","n","k">>,
     <<"f","o","l","d">>,
     <<"t","a","b","l","e">> >>

LOADED_GLOSSARY ==
  << [term |-> <<"g","r","i","n","d","e","r">>,
      Spanish |-> <<"j","u","g","a","d","o","r"," ","d","e","d","i","c","a","d","o">>,
      French |-> <<"j","o","u","e","u","r"," ","a","c","h","a","r","n","e/">>],
     [term |-> <<"g","r","i","n","d","e","r","s">>,
      Spanish |-> <<"j","u","g","a","d","o","r","e","s"," ","d","e","d","i","c","a","d","o","s">>,
      French |-> <<"j","o","u","e","u","r","s"," ","a","c","h","a","r","n","e/","s">>],
     [term |-> <<"p","o","k","e","r">>,
      Spanish |-> <<"p","o/","k","e","r">>,
      French |-> <<"p","o","k","e","r">>],
     [term |-> <<"l","o","g","i","n">>,
      Spanish |-> <<"i","n","i","c","i","a","r"," ","s","e","s","i","o/","n">>,
      French |-> <<"s","e"," ","c","o","n","n","e","c","t","e","r">>],
     [term |-> <<"s","i","g","n","u","p">>,
      Spanish |-> <<"r","e","g","i","s","t","r","a","r","s","e">>,
      French |-> <<"s","'","i","n","s","c","r","i","r","e">>],
     [term |-> <<"d","a","s","h","b","o","a","r","d">>,
      Spanish |-> <<"p","a","n","e","l">>,
      French |-> <<"t","a","b","l","e","a","u"," ","d","e"," ","b","o","r","d">>],
     [term |-> <<"s","e","t","t","i","n","g","s">>,
      Spanish |-> <<"c","o","n","f","i","g","u","r","a","c","i","o/","n">>,
      French |-> <<"p","a","r","a","m","e^","t","r","e","s">>] >>
LOADED_BRAND_TERMS ==
  << <<"O","c","t","o","p","i">>,
     <<"O","c","t","o","p","i"," ","P","o","k","e","r">>,
     <<"T","h","e"," ","V","a","u","l","t">>,
     <<"A","s","k"," ","G","e","o","r","g","e">>,
     <<"O","c","t","o","p","i"," ","S","t","o","r","e">>,
     <<"P","o","k","e","r","G","O">>,
     <<"W","S","O","P">>,
     <<"T","r","i","t","o","n">>,
     <<"I","C","M">>,
     <<"G","T","O">>,
     <<"H","U","D">> >>
REVIEW_BRAND_TERMS ==
  << <<"O","c","t","o","p","i">>,
     <<"P","o","k","e","r","G","O">>,
     <<"W","S","O","P">>,
     <<"I","C","M">>,
     <<"G","T","O">> >>
basic_translations ==
  << [eng |-> <<"S","h","o","p"," ","N","o","w">>, spa |-> <<"C","o","m","p","r","a","r"," ","A","h","o","r","a">>],
     [eng |-> <<"S","t","a","r","t"," ","T","r","a","i","n","i","n","g"," ","N","o","w">>, spa |-> <<"E","m","p","e","z","a","r"," ","a"," ","E","n","t","r","e","n","a","r"," ","A","h","o","r","a">>],
     [eng |-> <<"R","e","a","d"," ","M","o","r","e">>, spa |-> <<"L","e","e","r"," ","M","a/","s">>],
     [eng |-> <<"L","o","g","i","n">>, spa |-> <<"I","n","i","c","i","a","r"," ","S","e","s","i","o/","n">>],
     [eng |-> <<"S","i","g","n"," ","U","p">>, spa |-> <<"R","e","g","i","s","t","r","a","r","s","e">>],
     [eng |-> <<"D","a","s","h","b","o","a","r","d">>, spa |-> <<"P","a","n","e","l">>],
     [eng |-> <<"S","e","t","t","i","n","g","s">>, spa |-> <<"C","o","n","f","i","g","u","r","a","c","i","o/","n">>] >>
ambiguous_questions ==
  << <<"D","o","e","s"," ","'","p","l","a","y","'"," ","r","e","f","e","r"," ","t","o"," ","g","a","m","i","n","g"," ","a","c","t","i","o","n"," ","o","r"," ","v","i","d","e","o"," ","p","l","a","y","b","a","c","k","?">>,
     <<"D","o","e","s"," ","'","r","u","n","'"," ","m","e","a","n"," ","e","x","e","c","u","t","e","/","o","p","e","r","a","t","e"," ","o","r"," ","p","h","y","s","i","c","a","l"," ","r","u","n","n","i","n","g","?">>,
     <<"D","o","e","s"," ","'","b","a","n","k","'"," ","r","e","f","e","r"," ","t","o"," ","f","i","n","a","n","c","i","a","l"," ","i","n","s","t","i","t","u","t","i","o","n"," ","o","r"," ","p","o","k","e","r"," ","b","a","n","k","r","o","l","l","?">>,
     <<"D","o","e","s"," ","'","f","o","l","d","'"," ","r","e","f","e","r"," ","t","o"," ","p","o","k","e","r"," ","a","c","t","i","o","n"," ","o","r"," ","u","s","e","r"," ","i","n","t","e","r","f","a","c","e"," ","c","o","l","l","a","p","s","e","?">>,
     <<"D","o","e","s"," ","'","t","a","b","l","e","'"," ","r","e","f","e","r"," ","t","o"," ","p","o","k","e","r"," ","t","a","b","l","e"," ","o","r"," ","d","a","t","a"," ","t","a","b","l","e","?">> >>
q_context == <<" ","C","o","n","t","e","x","t",":"," ">>
q_section_text == <<" ","s","e","c","t","i","o","n",","," ","t","e","x","t",":"," ","'">>
q_quote == <<"'">>
q_should == <<"S","h","o","u","l","d"," ","'">>
q_translated_or_kept == <<"'"," ","b","e"," ","t","r","a","n","s","l","a","t","e","d"," ","o","r"," ","k","e","p","t"," ","a","s","-","i","s","?"," ","I","t"," ","a","p","p","e","a","r","s"," ","i","n"," ">>
q_section == <<" ","s","e","c","t","i","o","n",".">>
w_play == <<"p","l","a","y">>
w_bank == <<"b","a","n","k">>
w_table == <<"t","a","b","l","e">>
w_keep_as_is == <<"k","e","e","p"," ","a","s","-","i","s">>
w_game == <<"g","a","m","e">>
w_data == <<"d","a","t","a">>
w_poker == <<"p","o","k","e","r">>
BatchTypeText(batch_type) ==
  CASE batch_type = "navigation" -> <<"n","a","v","i","g","a","t","i","o","n">>
    [] batch_type = "buttons" -> <<"b","u","t","t","o","n","s">>
    [] batch_type = "headers" -> <<"h","e","a","d","e","r","s">>
    [] batch_type = "body_text" -> <<"b","o","d","y","_","t","e","x","t">>
    [] batch_type = "form_labels" -> <<"f","o","r","m","_","l","a","b","e","l","s">>
    [] batch_type = "meta_content" -> <<"m","e","t","a","_","c","o","n","t","e","n","t">>
    [] OTHER -> <<"N","o","n","e">>
k_nav == <<"n","a","v">>
k_home == <<"h","o","m","e">>
k_brand == <<"b","r","a","n","d">>
k_btn == <<"b","t","n">>
k_body == <<"b","o","d","y">>
k_a == <<"a">>
k_b == <<"b">>
k_c == <<"c">>
k_x == <<"x">>
k_a_dot_b == <<"a",".","b">>
k_hero == <<"h","e","r","o">>
k_title == <<"t","i","t","l","e">>
k_cta == <<"c","t","a">>
k_tags == <<"t","a","g","s">>
t_octopi_poker == <<"O","c","t","o","p","i"," ","P","o","k","e","r">>
t_run == <<"R","u","n">>
t_bank == <<"B","a","n","k">>
t_table == <<"T","a","b","l","e">>
k_c_dot_d == <<"c",".","d">>
k_d == <<"d">>
k_e == <<"e">>
OK_TEXT == <<"O","K">>
c_hola == <<"H","o","l","a">>
c_long == <<"T","e","x","t","o"," ","t","r","a","d","u","c","i","d","o"," ","m","u","y"," ","l","a","r","g","o">>
c_upper_brand == <<"e","l"," ","O","C","T","O","P","I">>
c_fenced == <<"BT","BT","BT","H","o","l","a","BT","BT","BT">>
c_too_literal == <<"T","o","o"," ","l","i","t","e","r","a","l">>
t_octopi == <<"O","c","t","o","p","i">>
t_home == <<"H","o","m","e">>
t_login == <<"L","o","g","i","n">>
t_play == <<"P","l","a","y">>
t_fold == <<"F","o","l","d">>
t_ok == <<"O","K">>
t_shop_now == <<"S","h","o","p"," ","N","o","w">>
t_header == <<"h","e","a","d","e","r">>
t_content == <<"c","o","n","t","e","n","t">>
t_button == <<"b","u","t","t","o","n">>
COMPLETION_PHRASE == <<"T","r","a","n","s","l","a","t","i","o","n"," ","i","s"," ","a","c","c","u","r","a","t","e"," ","a","n","d"," ","f","l","u","e","n","t",".">>
k_pages == <<"p","a","g","e","s">>
k_name == <<"n","a","m","e">>
k_meta_data == <<"m","e","t","a","_","d","a","t","a">>
k_group_1 == <<"g","r","o","u","p","_","1">>
k_group_2 == <<"g","r","o","u","p","_","2">>
k_a_b == <<"a","_","b">>
k_b_c == <<"b","_","c">>
k_links == <<"l","i","n","k","s">>
t_hero == <<"H","e","r","o">>
t_footer == <<"F","o","o","t","e","r">>
k_violations == <<"v","i","o","l","a","t","i","o","n","s">>
k_total_violations == <<"t","o","t","a","l","_","v","i","o","l","a","t","i","o","n","s">>
k_needs_regeneration == <<"n","e","e","d","s","_","r","e","g","e","n","e","r","a","t","i","o","n">>
k_batch_id == <<"b","a","t","c","h","_","i","d">>
k_regeneration_feedback == <<"r","e","g","e","n","e","r","a","t","i","o","n","_","f","e","e","d","b","a","c","k">>

\* ------------------------------------------------------------------------
\* Content documents (parsed JSON): str, int, dict with ordered keys, list
\* ------------------------------------------------------------------------

Str(s) == [k |-> "str", s |-> s]
Num(n) == [k |-> "int", n |-> n]
Dict(keys, vals) == [k |-> "dict", keys |-> keys, vals |-> vals]
List(vals) == [k |-> "list", vals |-> vals]
EmptyDict == Dict(<< >>, << >>)

KeyIn(key, obj) == \E i \in 1..Len(obj.keys) : obj.keys[i] = key
KeyIndex(obj, key) == CHOOSE i \in 1..Len(obj.keys) : obj.keys[i] = key
DictGet(obj, key) == obj.vals[KeyIndex(obj, key)]

\* obj[key] = val on a dict: replaces the value of a present key, appends a new key
DictSet(obj, key, val) ==
  IF KeyIn(key, obj)
  THEN [obj EXCEPT !.vals[KeyIndex(obj, key)] = val]
  ELSE [obj EXCEPT !.keys = Append(@, key), !.vals = Append(@, val)]

\* str(x) of a JSON scalar
py_str(obj) == IF obj.k = "str" THEN obj.s ELSE int_str(obj.n)

\* isinstance(obj, dict) and "type" in obj and "value" in obj
IsTranslatable(obj) == obj.k = "dict" /\ KeyIn(k_type, obj) /\ KeyIn(k_value, obj)

\* f"{path}.{key}" if path else key
JoinKey(path, key) == IF path = << >> THEN key ELSE path \o <<".">> \o key

\* f"{path}[{i}]", i counted from 0
JoinIndex(path, i) == path \o <<"[">> \o int_str(i) \o <<"]">>

\* The depth-first walk shared by count_translatable_items, fast_track_translate
\* and classify_and_batch: the translatable leaves in visiting order, each with
\* the path string built on the way down.
RECURSIVE Leaves(_, _), LeavesOfKids(_, _, _)
Leaves(obj, path) ==
  IF obj.k = "dict"
  THEN IF IsTranslatable(obj) THEN <<[path |-> path, obj |-> obj]>>
       ELSE LeavesOfKids(obj, path, 1)
  ELSE IF obj.k = "list" THEN LeavesOfKids(obj, path, 1)
  ELSE << >>
LeavesOfKids(obj, path, i) ==
  IF i > Len(obj.vals) THEN << >>
  ELSE Leaves(obj.vals[i],
              IF obj.k = "dict" THEN JoinKey(path, obj.keys[i]) ELSE JoinIndex(path, i - 1))
       \o LeavesOfKids(obj, path, i + 1)

count_translatable_items(content) == Len(Leaves(content, << >>))

\* The shape of a document: the document with the value of every translatable
\* leaf blanked.
RECURSIVE Shape(_)
Shape(obj) ==
  IF obj.k \in {"str", "int"} THEN obj
  ELSE IF IsTranslatable(obj) THEN DictSet(obj, k_value, Str(<< >>))
  ELSE [obj EXCEPT !.vals = [i \in 1..Len(obj.vals) |-> Shape(obj.vals[i])]]

\* ------------------------------------------------------------------------
\* Navigation by path string, as apply_batch_translations_to_content does it.
\* st is "ok", "caught" (KeyError, IndexError or ValueError, which the except
\* clause catches) or "TypeError" (which it does not catch).
\* ------------------------------------------------------------------------

Ok(obj) == [st |-> "ok", obj |-> obj]
Fail(st) == [st |-> st, obj |-> Str(<< >>)]

\* obj[key] for a str key
GetKey(obj, key) ==
  IF obj.k = "dict"
  THEN IF KeyIn(key, obj) THEN Ok(DictGet(obj, key)) ELSE Fail("caught")
  ELSE Fail("TypeError")

\* obj[i] for an int i >= 0
GetIndex(obj, i) ==
  CASE obj.k = "list" -> IF i < Len(obj.vals) THEN Ok(obj.vals[i + 1]) ELSE Fail("caught")
    [] obj.k = "dict" -> Fail("caught")
    [] obj.k = "str"  -> IF i < Len(obj.s) THEN Ok(Str(<<obj.s[i + 1]>>)) ELSE Fail("caught")
    [] OTHER          -> Fail("TypeError")

\* obj["value"] = text
SetValue(obj, text) ==
  IF obj.k = "dict" THEN Ok(DictSet(obj, k_value, Str(text))) ELSE Fail("TypeError")

HasIndex(part) == str_in(<<"[">>, part) /\ str_in(<<"]">>, part)

RECURSIVE SetAtPath(_, _, _)
SetAtPath(obj, parts, text) ==
  LET part   == Head(parts)
      last   == Len(parts) = 1
      pieces == str_split(part, "[")
      digits == str_rstrip(pieces[2], "]")
      Below(child) == IF last THEN SetValue(child, text) ELSE SetAtPath(child, Tail(parts), text)
  IN  IF HasIndex(part)
      THEN IF Len(pieces) # 2 \/ ~IsDigits(digits) THEN Fail("caught")
           ELSE LET r1 == GetKey(obj, pieces[1])
                    r2 == GetIndex(r1.obj, str_int(digits))
                    r3 == Below(r2.obj)
                IN  IF r1.st # "ok" THEN Fail(r1.st)
                    ELSE IF r2.st # "ok" THEN Fail(r2.st)
                    ELSE IF r3.st # "ok" THEN Fail(r3.st)
                    ELSE Ok(DictSet(obj, pieces[1],
                                    [r1.obj EXCEPT !.vals[str_int(digits) + 1] = r3.obj]))
      ELSE LET r1 == GetKey(obj, part)
               r3 == Below(r1.obj)
           IN  IF r1.st # "ok" THEN Fail(r1.st)
               ELSE IF r3.st # "ok" THEN Fail(r3.st)
               ELSE Ok(DictSet(obj, part, r3.obj))

\* ------------------------------------------------------------------------
\* Translation resources and rules
\* (fullstack_app/backend/translation_agency/agent.py)
\* ------------------------------------------------------------------------

\* content_batches is created with these keys in this order
BATCH_TYPES == <<"navigation", "buttons", "headers", "body_text", "form_labels", "meta_content">>

\* A response of the generative model to one generate_content call: it raises,
\* or it returns response.text.
Raises == [err |-> TRUE, text |-> << >>]
Returns(t) == [err |-> FALSE, text |-> t]

\* item["translated"] is None until a translation is stored
None == [some |-> FALSE, text |-> << >>]
Some(t) == [some |-> TRUE, text |-> t]

\* classify_content_type
classify_content_type(content_obj, path) ==
  LET path_lower == str_lower(path)
  IN  IF any_in(NAV_KEYWORDS, path_lower) THEN "navigation"
      ELSE IF any_in(BUTTON_KEYWORDS, path_lower) THEN "buttons"
      ELSE IF any_in(HEADER_KEYWORDS, path_lower) THEN "headers"
      ELSE IF any_in(FORM_KEYWORDS, path_lower) THEN "form_labels"
      ELSE IF any_in(META_KEYWORDS, path_lower) THEN "meta_content"
      ELSE "body_text"

\* expansion_factors.get(target_language, 1.3), in hundredths
expansion_factor(target_language) ==
  CASE target_language = "Spanish"    -> 125
    [] target_language = "French"     -> 130
    [] target_language = "German"     -> 140
    [] target_language = "Portuguese" -> 125
    [] target_language = "Italian"    -> 120
    [] OTHER                          -> 130

\* The lengths below 200 at which the double product original_length * 1.4 is
\* just under the exact integer product, so that int() gives one less.
GERMAN_FLOAT_SHORTFALL == {45, 85, 90, 165, 170, 175, 180}

\* calculate_max_chars: int(original_length * max_expansion)
calculate_max_chars(original_length, target_language) ==
  LET expansion == expansion_factor(target_language)
      max_expansion == IF original_length <= 10 THEN 200
                       ELSE IF original_length <= 30 THEN expansion + 30
                       ELSE expansion
      exact == (original_length * max_expansion) \div 100
  IN  IF original_length > 30 /\ target_language = "German"
         /\ original_length \in GERMAN_FLOAT_SHORTFALL
      THEN exact - 1
      ELSE exact

\* check_for_clarification_needed: "none", the index of the first ambiguous
\* pattern found in the lowered original, or "short"
check_for_clarification_needed(item, batch_type) ==
  LET original_text == str_lower(item.original)
      found == {k \in 1..Len(ambiguous_patterns) : str_in(ambiguous_patterns[k], original_text)}
  IN  IF found # {}
      THEN [needed |-> TRUE, kind |-> "ambiguous",
            pattern |-> CHOOSE k \in found : \A j \in found : k <= j]
      ELSE IF Len(item.original) <= 3 /\ batch_type \in {"buttons", "navigation"}
      THEN [needed |-> TRUE, kind |-> "short", pattern |-> 0]
      ELSE [needed |-> FALSE, kind |-> "none", pattern |-> 0]

\* fallback_translation
RECURSIVE FallbackFrom(_, _)
FallbackFrom(translated_text, i) ==
  IF i > Len(basic_translations) THEN translated_text
  ELSE FallbackFrom(
         IF str_in(basic_translations[i].eng, translated_text)
         THEN str_replace(translated_text, basic_translations[i].eng, basic_translations[i].spa)
         ELSE translated_text,
         i + 1)

fallback_translation(text, target_language) ==
  IF target_language = "Spanish" THEN FallbackFrom(text, 1) ELSE text

\* The removal of markdown code fences from a stripped response
strip_fences_json(t) ==
  IF str_startswith(t, FENCE_JSON)
  THEN str_strip(str_replace(str_replace(t, FENCE_JSON, << >>), FENCE, << >>))
  ELSE IF str_startswith(t, FENCE) THEN str_strip(str_replace(t, FENCE, << >>))
  ELSE t

strip_fences(t) ==
  IF str_startswith(t, FENCE) THEN str_strip(str_replace(t, FENCE, << >>)) ELSE t

\* translate_with_gemini, response being what the model does on this call
translate_with_gemini_no_fallback(text, target_language, response) ==
  IF response.err THEN << >> ELSE strip_fences_json(str_strip(response.text))
translate_with_gemini(text, target_language, response) ==
  IF response.err THEN fallback_translation(text, target_language)
  ELSE strip_fences_json(str_strip(response.text))

GlossaryHas(entry, target_language) == target_language \in {"Spanish", "French"}

\* Step 2 of apply_translation_rules: the glossary terms, in the glossary's order
RECURSIVE GlossaryFrom(_, _, _, _)
GlossaryFrom(translated_text, target_language, glossary, i) ==
  IF i > Len(glossary) THEN translated_text
  ELSE GlossaryFrom(
         IF /\ GlossaryHas(glossary[i], target_language)
            /\ str_in(str_lower(glossary[i].term), str_lower(translated_text))
         THEN re_sub(translated_text, glossary[i].term, glossary[i][target_language], TRUE)
         ELSE translated_text,
         target_language, glossary, i + 1)

\* The brand term with the casing of its first occurrence in text
ExactBrandTerm(text, brand_term) ==
  SubSeq(text, re_search(text, brand_term, FALSE, 1),
               re_search(text, brand_term, FALSE, 1) + Len(brand_term) - 1)

\* Step 3 of apply_translation_rules: the brand terms, in the list's order
RECURSIVE BrandsFrom(_, _, _, _)
BrandsFrom(translated_text, text, brand_terms, i) ==
  IF i > Len(brand_terms) THEN translated_text
  ELSE BrandsFrom(
         IF str_in(str_lower(brand_terms[i]), str_lower(text))
         THEN re_sub(translated_text, brand_terms[i], ExactBrandTerm(text, brand_terms[i]), FALSE)
         ELSE translated_text,
         text, brand_terms, i + 1)

apply_translation_rules(text, target_language, glossary, brand_terms, response) ==
  BrandsFrom(
    GlossaryFrom(translate_with_gemini(text, target_language, response),
                 target_language, glossary, 1),
    text, brand_terms, 1)

\* get_shorter_translation returning the model's text as it came
get_shorter_translation_uncut(original, max_chars, response) ==
  IF response.err THEN original
  ELSE strip_fences(str_strip(response.text))

\* get_shorter_translation
get_shorter_translation(original, max_chars, response) ==
  IF response.err THEN str_prefix(original, max_chars)
  ELSE str_prefix(strip_fences(str_strip(response.text)), max_chars)

\* create_revised_translation
create_revised_translation(current_translation, max_chars, response) ==
  IF response.err THEN current_translation
  ELSE str_prefix(strip_fences(str_strip(response.text)), max_chars)

\* review_translation_item: the finding, or kind "none"
review_translation_item(item, response) ==
  LET original == item.original
      translated == item.translated.text
      lost == {b \in 1..Len(REVIEW_BRAND_TERMS) :
                 str_in(REVIEW_BRAND_TERMS[b], original) /\ ~str_in(REVIEW_BRAND_TERMS[b], translated)}
  IN  IF Len(translated) > item.max_chars THEN "length_exceeded"
      ELSE IF lost # {} THEN "brand_term_lost"
      ELSE IF Len(str_strip(translated)) = 0 THEN "empty_output"
      ELSE IF response.err THEN "none"
      ELSE IF str_strip(response.text) = OK_TEXT THEN "none"
      ELSE IF str_strip(response.text) = << >> THEN "none"
      ELSE "quality_issue"

\* ------------------------------------------------------------------------
\* Inputs
\* ------------------------------------------------------------------------

Leaf(type, value) == Dict(<<k_type, k_value>>, <<Str(type), Str(value)>>)

\* The plain text "Octopi"
INPUT_BRAND_TEXT == [kind |-> "text", text |-> t_octopi, doc |-> EmptyDict]

\* Text that starts with { and ends with } and is not JSON
INPUT_BAD_JSON == [kind |-> "bad_json", text |-> << >>, doc |-> EmptyDict]

\* {"hero": {"title": .., "cta": ..}, "tags": [..]}: three leaves
INPUT_SMALL_PAGE ==
  [kind |-> "json", text |-> << >>,
   doc |-> Dict(<<k_hero, k_tags>>,
                <<Dict(<<k_title, k_cta>>,
                       <<Leaf(t_header, t_octopi_poker), Leaf(t_button, t_login)>>),
                  List(<<Leaf(t_content, t_shop_now)>>)>>)]

\* {"nav": {"home": .., "brand": ..}, "btn": [.., ..], "body": {"a": .., "b": ..}}:
\* six leaves in the navigation, buttons and body_text batches
INPUT_PAGE ==
  [kind |-> "json", text |-> << >>,
   doc |-> Dict(<<k_nav, k_btn, k_body>>,
                <<Dict(<<k_home, k_brand>>,
                       <<Leaf(t_header, t_home), Leaf(t_header, t_octopi)>>),
                  List(<<Leaf(t_button, t_ok), Leaf(t_button, t_login)>>),
                  Dict(<<k_a, k_b>>,
                       <<Leaf(t_content, t_play), Leaf(t_content, t_fold)>>)>>)]

\* {"a.b": .., "a": {"b": ..}, "c.d": .., "c": {"d": {"e": ..}}, "x": [.., ..]}:
\* six leaves, two of them under keys that hold a dot
INPUT_DOTTED_PAGE ==
  [kind |-> "json", text |-> << >>,
   doc |-> Dict(<<k_a_dot_b, k_a, k_c_dot_d, k_c, k_x>>,
                <<Leaf(t_content, t_home),
                  Dict(<<k_b>>, <<Leaf(t_content, t_table)>>),
                  Leaf(t_content, t_login),
                  Dict(<<k_d>>, <<Dict(<<k_e>>, <<Leaf(t_content, t_play)>>)>>),
                  List(<<Leaf(t_content, t_run), Leaf(t_content, t_bank)>>)>>)]

\* {"a.b": .., "a": "Table", "x": [.., .., .., .., ..]}: six leaves, and the key
\* "a" that the path "a.b" walks into holds a plain string
INPUT_SCALAR_PAGE ==
  [kind |-> "json", text |-> << >>,
   doc |-> Dict(<<k_a_dot_b, k_a, k_x>>,
                <<Leaf(t_content, t_home),
                  Str(t_table),
                  List(<<Leaf(t_content, t_run), Leaf(t_content, t_bank),
                         Leaf(t_content, t_table), Leaf(t_content, t_play),
                         Leaf(t_content, t_fold)>>)>>)]

\* {"a": {"b": ..}, "a.b": .., "x": [.., .., .., ..]}: six leaves; the leaf at
\* a -> b comes before the leaf under the key "a.b"
INPUT_SHADOWED_PAGE ==
  [kind |-> "json", text |-> << >>,
   doc |-> Dict(<<k_a, k_a_dot_b, k_x>>,
                <<Dict(<<k_b>>, <<Leaf(t_content, t_ok)>>),
                  Leaf(t_content, t_shop_now),
                  List(<<Leaf(t_content, t_run), Leaf(t_content, t_bank),
                         Leaf(t_content, t_table), Leaf(t_content, t_play)>>)>>)]

Inputs ==
  {INPUT_BRAND_TEXT, INPUT_BAD_JSON, INPUT_SMALL_PAGE, INPUT_PAGE, INPUT_DOTTED_PAGE,
   INPUT_SCALAR_PAGE, INPUT_SHADOWED_PAGE}

\* The languages extract_language_from_input may find in the request
Languages == {"Spanish", "French", "German"}

\* What the generative model may do on one call
CapabilityTexts == {c_hola, c_long, << >>, c_upper_brand, c_fenced}
Capability == {Raises} \cup {Returns(t) : t \in CapabilityTexts}
ReviewCapability == {Raises, Returns(OK_TEXT), Returns(c_too_literal)}

\* LoopAgent(max_iterations=...) of the batch pipeline and of the v1 loop
max_iterations == 10
v1_max_iterations == 5

\* ------------------------------------------------------------------------
\* State
\* ------------------------------------------------------------------------

VARIABLES
  job,                  \* which workflow this behaviour runs
  pc,                   \* the agent of the workflow that runs next
  user_input,           \* the request
  source_content,       \* state["source_content"]
  input_type,           \* state["input_type"]
  target_language,      \* state["target_language"]
  change_type,          \* state["change_type"]
  workflow_path,        \* state["workflow_path"]
  translations,         \* state["translations"]
  glossary,             \* state["glossary"]
  brand_terms,          \* state["brand_terms"]
  content_batches,      \* state["content_batches"]
  clarifying_questions, \* state["clarifying_questions"]
  batch_feedback,       \* state["batch_feedback"]
  current_batch,        \* state["current_batch"]
  completed_batches,    \* state["completed_batches"]
  revision_needed,      \* state["revision_needed"]
  review_result,        \* state["review_result"]
  final_output,         \* state["final_output"]
  times_looped,         \* iterations the running LoopAgent has completed
  applied,              \* the items apply has written, in order
  current_translation,  \* v1 state["current_translation"]
  translation_critique, \* v1 state["translation_critique"]
  capability_dead,      \* every call the pipeline has made to the generative model has raised
  original_document,    \* the object json.loads returned, as it is now (fast track copies it,
                        \* apply writes into it)
  over_budget,          \* the items whose first translation came back longer than max_chars
  num_batches,          \* staged workflow: len(batches)
  parallel_group,       \* staged workflow: the ParallelAgent that runs (0: none yet)
  in_flight,            \* staged workflow: the batch translators that are running
  session_state,        \* staged workflow: the keys the translators have written
  translation_json,     \* validator: the translation output handed to the validator
  validator_batch,      \* validator: the batch handed to the validator
  validation_result,    \* validator: what validate_translation_length returned
  agent_events,         \* staged workflow: the authors of the final responses, in order
  request,              \* main.py: the MultiSectionTranslationRequest
  api_response,         \* main.py: what translate_sections returned or raised
  content_file,         \* batch_processor.py: the document in the file at content_file_path
  content_data,         \* batch_processor.py: ContentBatchProcessor.content_data
  processor_batches,    \* batch_processor.py: ContentBatchProcessor.batches
  create_batches_calls, \* batch_processor.py: the calls of create_batches so far
  max_chars_call,       \* calculate_max_chars: the arguments of the call
  max_chars_returned,   \* calculate_max_chars: what the call returned
  callback_state,       \* validation callbacks: callback_context.state, keys in insertion order
  callback_done,        \* validation callbacks: the batches whose callback has run
  callback_log,        \* validation callbacks: per call, the batch, the key it took and whether it flagged it
  website_results       \* website workflow: what translate_website returned or raised

pipeline_vars ==
  <<user_input, source_content, input_type, target_language, change_type, workflow_path,
    translations, glossary, brand_terms, content_batches, clarifying_questions,
    batch_feedback, current_batch, completed_batches, revision_needed, review_result,
    final_output, applied, original_document, over_budget>>

v1_vars == <<current_translation, translation_critique>>

processor_vars == <<content_file, content_data, processor_batches, create_batches_calls>>
callback_vars == <<callback_state, callback_done, callback_log>>
budget_vars == <<max_chars_call, max_chars_returned>>
v4_vars == <<budget_vars, callback_vars, website_results>>
v3_vars == <<agent_events, request, api_response, processor_vars, v4_vars>>
v2_vars ==
  <<num_batches, parallel_group, in_flight, session_state, translation_json, validator_batch,
    validation_result, v3_vars>>

vars == <<job, pc, times_looped, pipeline_vars, v1_vars, v2_vars, capability_dead>>

\* What the jobs added after the staged workflow leave as it is
earlier_vars ==
  <<job, times_looped, pipeline_vars, v1_vars, capability_dead, num_batches, parallel_group,
    in_flight, session_state, translation_json, validator_batch, validation_result,
    agent_events, request, api_response, processor_vars>>

\* create_translation_session: the state a session starts with
SessionState ==
  /\ source_content = EmptyDict
  /\ input_type = "unset"
  /\ target_language = "Spanish"
  /\ change_type = "unknown"
  /\ workflow_path = "unknown"
  /\ translations = << >>
  /\ glossary = << >>
  /\ brand_terms = << >>
  /\ content_batches = << >>
  /\ clarifying_questions = << >>
  /\ batch_feedback = << >>
  /\ current_batch = "None"
  /\ completed_batches = << >>
  /\ revision_needed = FALSE
  /\ review_result = ""
  /\ final_output = [kind |-> "none", value |-> Str(<< >>)]
  /\ applied = << >>

\* ------------------------------------------------------------------------
\* Router and the two translation paths
\* ------------------------------------------------------------------------

\* The content analyze_and_route_content builds from the request: the parsed JSON,
\* or the stripped text as the one item plain_text
parsed_content(input) ==
  IF input.kind = "json" THEN input.doc
  ELSE IF input.kind = "text"
  THEN Dict(<<k_plain_text>>, <<Leaf(t_content, str_strip(input.text))>>)
  ELSE EmptyDict

\* Smart routing: the workflow path for total_items translatable items
workflow_path_below_five(total_items) ==
  IF total_items < 5 THEN "fast_track" ELSE "batch_pipeline"
workflow_path_for(total_items) ==
  IF total_items <= 5 THEN "fast_track" ELSE "batch_pipeline"

\* The most leaves of a document handed to the router on its own
MaxLeaves == 7

\* {"x": [.., ..]} with n leaves, for n up to MaxLeaves, and the plain text
RouterInputs ==
  {[kind |-> "json", text |-> << >>,
    doc |-> Dict(<<k_x>>, <<List([i \in 1..n |-> Leaf(t_content, t_ok)])>>)] : n \in 0..MaxLeaves}
    \cup {INPUT_BRAND_TEXT, INPUT_BAD_JSON}

\* analyze_and_route_content, which ends with load_translation_resources.  The
\* language is what extract_language_from_input finds in the request.  The job
\* "router" calls the tool on its own.
analyze_and_route_content ==
  /\ job \in {"pipeline", "router"}
  /\ pc = "router"
  /\ pc' = "conditional"
  /\ IF user_input.kind = "bad_json"
     THEN UNCHANGED <<source_content, input_type, target_language, change_type,
                      workflow_path, glossary, brand_terms, original_document>>
     ELSE \E language \in Languages :
            LET content == parsed_content(user_input)
                total_items == IF user_input.kind = "json"
                               THEN count_translatable_items(content) ELSE 1
            IN  /\ source_content' = content
                /\ original_document' = content
                /\ input_type' = IF user_input.kind = "json" THEN "json" ELSE "text"
                /\ target_language' = language
                /\ change_type' = IF workflow_path_for(total_items) = "fast_track"
                                  THEN "small" ELSE "large"
                /\ workflow_path' = workflow_path_for(total_items)
                /\ glossary' = LOADED_GLOSSARY
                /\ brand_terms' = LOADED_BRAND_TERMS
  /\ UNCHANGED <<job, times_looped, user_input, translations, content_batches,
                 clarifying_questions, batch_feedback, current_batch, completed_batches,
                 revision_needed, review_result, final_output, applied, over_budget,
                 v1_vars, v2_vars, capability_dead>>

\* Every response of a draw is an exception
AllRaise(responses) == \A k \in DOMAIN responses : responses[k] = Raises

\* translations[path] = text
MapSet(map, path, text) ==
  IF \E i \in 1..Len(map) : map[i].path = path
  THEN [i \in 1..Len(map) |-> IF map[i].path = path THEN [path |-> path, text |-> text] ELSE map[i]]
  ELSE Append(map, [path |-> path, text |-> text])

\* translate_item of fast_track_translate: the walk over the copy, which takes the
\* model's responses in visiting order.  acc.n counts the leaves visited.
RECURSIVE translate_item(_, _, _, _), TranslateKids(_, _, _, _, _)
translate_item(obj, path, responses, acc) ==
  IF obj.k = "dict"
  THEN IF IsTranslatable(obj)
       THEN LET translated_text ==
                  apply_translation_rules(py_str(DictGet(obj, k_value)), target_language,
                                          glossary, brand_terms, responses[acc.n + 1])
            IN  [obj |-> DictSet(obj, k_value, Str(translated_text)),
                 acc |-> [n |-> acc.n + 1,
                          translations |-> MapSet(acc.translations, path, translated_text)]]
       ELSE TranslateKids(obj, path, responses, acc, 1)
  ELSE IF obj.k = "list" THEN TranslateKids(obj, path, responses, acc, 1)
  ELSE [obj |-> obj, acc |-> acc]
TranslateKids(obj, path, responses, acc, i) ==
  IF i > Len(obj.vals) THEN [obj |-> obj, acc |-> acc]
  ELSE LET r == translate_item(obj.vals[i],
                               IF obj.k = "dict" THEN JoinKey(path, obj.keys[i])
                               ELSE JoinIndex(path, i - 1),
                               responses, acc)
       IN  TranslateKids([obj EXCEPT !.vals[i] = r.obj], path, responses, r.acc, i + 1)

\* ConditionalTranslationAgent, fast_track branch: fast_track_translate
fast_track_translate ==
  /\ job = "pipeline"
  /\ pc = "conditional"
  /\ workflow_path = "fast_track"
  /\ pc' = "translate"
  /\ \E responses \in [1..count_translatable_items(source_content) -> Capability] :
       LET r == translate_item(source_content, << >>, responses,
                               [n |-> 0, translations |-> << >>])
       IN  /\ translations' = r.acc.translations
           /\ source_content' = r.obj
           /\ capability_dead' = (capability_dead /\ AllRaise(responses))
  /\ UNCHANGED <<job, times_looped, user_input, input_type, target_language, change_type,
                 workflow_path, glossary, brand_terms, content_batches,
                 clarifying_questions, batch_feedback, current_batch, completed_batches,
                 revision_needed, review_result, final_output, applied, original_document,
                 over_budget, v1_vars, v2_vars>>

\* The item classify_and_batch appends for a leaf
BatchItem(leaf) ==
  [path |-> leaf.path,
   original |-> py_str(DictGet(leaf.obj, k_value)),
   type |-> DictGet(leaf.obj, k_type),
   content_category |-> classify_content_type(leaf.obj, leaf.path),
   original_length |-> Len(py_str(DictGet(leaf.obj, k_value))),
   max_chars |-> calculate_max_chars(Len(py_str(DictGet(leaf.obj, k_value))), target_language),
   translated |-> None,
   status |-> "pending"]

\* The batches of a document: one per content type that has items, in the order
\* of BATCH_TYPES, each with its items in visiting order
BatchesOf(content) ==
  LET leaves == Leaves(content, << >>)
      items == [i \in 1..Len(leaves) |-> BatchItem(leaves[i])]
      OfType(t) == LET Is(item) == item.content_category = t IN SelectSeq(items, Is)
      all == [b \in 1..Len(BATCH_TYPES) |-> [type |-> BATCH_TYPES[b], items |-> OfType(BATCH_TYPES[b])]]
      NotEmpty(batch) == batch.items # << >>
  IN  SelectSeq(all, NotEmpty)

\* ConditionalTranslationAgent, other branch: organize_content_into_batches
organize_content_into_batches ==
  /\ job = "pipeline"
  /\ pc = "conditional"
  /\ workflow_path # "fast_track"
  /\ pc' = "translate"
  /\ content_batches' = BatchesOf(source_content)
  /\ clarifying_questions' = << >>
  /\ completed_batches' = << >>
  /\ UNCHANGED <<job, times_looped, user_input, source_content, input_type, target_language,
                 change_type, workflow_path, translations, glossary, brand_terms,
                 batch_feedback, current_batch, revision_needed, review_result,
                 final_output, applied, original_document, over_budget, v1_vars, v2_vars,
                 capability_dead>>

\* ------------------------------------------------------------------------
\* The batch processing loop: translate, review, revise
\* ------------------------------------------------------------------------

IsCompleted(batch_type) ==
  \E i \in 1..Len(completed_batches) : completed_batches[i] = batch_type

\* Index in content_batches of the batch of this type, 0 when there is none
BatchIndex(batch_type) ==
  IF \E b \in 1..Len(content_batches) : content_batches[b].type = batch_type
  THEN CHOOSE b \in 1..Len(content_batches) : content_batches[b].type = batch_type
  ELSE 0

\* "Find next batch to translate": the first batch that is not completed and has
\* a pending item, 0 when there is none
NextBatchToTranslate ==
  LET open == {b \in 1..Len(content_batches) :
                 /\ ~IsCompleted(content_batches[b].type)
                 /\ \E k \in 1..Len(content_batches[b].items) :
                      content_batches[b].items[k].status = "pending"}
  IN  IF open = {} THEN 0 ELSE CHOOSE b \in open : \A c \in open : b <= c

\* The question text check_for_clarification_needed returns
QuestionText(item, batch_type, ask) ==
  IF ask.kind = "ambiguous"
  THEN ambiguous_questions[ask.pattern] \o q_context \o BatchTypeText(batch_type)
       \o q_section_text \o item.original \o q_quote
  ELSE q_should \o item.original \o q_translated_or_kept \o BatchTypeText(batch_type) \o q_section

\* The questions translate_content_batch appends, in item order
RECURSIVE QuestionsFrom(_, _, _, _)
QuestionsFrom(items, asks, batch_type, k) ==
  IF k > Len(items) THEN << >>
  ELSE (IF items[k].status = "pending" /\ asks[k].needed
        THEN <<[batch_type |-> batch_type,
                item_path |-> items[k].path,
                question |-> QuestionText(items[k], batch_type, asks[k]),
                answered |-> FALSE,
                answer |-> ""]>>
        ELSE << >>)
       \o QuestionsFrom(items, asks, batch_type, k + 1)

\* BatchTranslationAgent: translate_content_batch
translate_content_batch ==
  /\ job = "pipeline"
  /\ pc = "translate"
  /\ pc' = "review"
  /\ IF NextBatchToTranslate = 0
     THEN UNCHANGED <<content_batches, clarifying_questions, current_batch, capability_dead,
                      over_budget>>
     ELSE LET b == NextBatchToTranslate
              current_batch_type == content_batches[b].type
              items == content_batches[b].items
              asks == [k \in 1..Len(items) |->
                         check_for_clarification_needed(items[k], current_batch_type)]
              to_translate == {k \in 1..Len(items) :
                                 items[k].status = "pending" /\ ~asks[k].needed}
          IN  \E first_response \in [to_translate -> Capability] :
                LET first == [k \in to_translate |->
                                apply_translation_rules(items[k].original, target_language,
                                                        glossary, brand_terms, first_response[k])]
                    too_long == {k \in to_translate : Len(first[k]) > items[k].max_chars}
                IN  \E shorter_response \in [too_long -> Capability] :
                      /\ content_batches' =
                           [content_batches EXCEPT ![b].items =
                              [k \in 1..Len(items) |->
                                 IF items[k].status # "pending" THEN items[k]
                                 ELSE IF asks[k].needed
                                 THEN [items[k] EXCEPT !.status = "needs_clarification"]
                                 ELSE [items[k] EXCEPT
                                         !.translated =
                                            Some(IF k \in too_long
                                                 THEN get_shorter_translation(
                                                        items[k].original, items[k].max_chars,
                                                        shorter_response[k])
                                                 ELSE first[k]),
                                         !.status = "translated"]]]
                      /\ clarifying_questions' =
                           clarifying_questions \o QuestionsFrom(items, asks, current_batch_type, 1)
                      /\ current_batch' = current_batch_type
                      /\ over_budget' =
                           over_budget \cup {<<current_batch_type, k>> : k \in too_long}
                      /\ capability_dead' = (/\ capability_dead
                                             /\ AllRaise(first_response)
                                             /\ AllRaise(shorter_response))
  /\ UNCHANGED <<job, times_looped, user_input, source_content, input_type, target_language,
                 change_type, workflow_path, translations, glossary, brand_terms,
                 batch_feedback, completed_batches, revision_needed, review_result,
                 final_output, applied, original_document, v1_vars, v2_vars>>

\* "poker" in str(state).lower()
StateMentionsPoker ==
  \/ \E i \in 1..Len(glossary) : str_in(w_poker, str_lower(glossary[i].term))
  \/ \E i \in 1..Len(brand_terms) : str_in(w_poker, str_lower(brand_terms[i]))
  \/ \E i \in 1..Len(clarifying_questions) :
       str_in(w_poker, str_lower(clarifying_questions[i].question))

\* answer_clarifying_question
answer_clarifying_question_blank(question, batch_type) == ""
answer_clarifying_question(question, batch_type) ==
  LET question_text == str_lower(question.question)
      item_path == str_lower(question.item_path)
  IN  IF str_in(w_play, question_text)
      THEN IF batch_type = "buttons" \/ str_in(w_game, item_path)
           THEN "Gaming action - translate as game play"
           ELSE "Video playback - translate as media play"
      ELSE IF str_in(w_bank, question_text)
      THEN IF StateMentionsPoker
           THEN "Poker bankroll - use gambling-specific translation"
           ELSE "Financial institution - use standard banking term"
      ELSE IF str_in(w_table, question_text)
      THEN IF batch_type = "navigation" \/ str_in(w_data, item_path)
           THEN "Data table - use UI table translation"
           ELSE "Poker table - use gambling-specific translation"
      ELSE IF str_in(w_keep_as_is, question_text)
      THEN "Translate - maintain consistency with rest of interface"
      ELSE "Use context-appropriate translation maintaining brand consistency"

\* The deterministic checks of review_translation_item pass, so that the item is
\* sent to the model for the quality review
ReachesQualityReview(item) == review_translation_item(item, Raises) = "none"

\* check_for_batch_review_exit, the after_agent_callback of the reviewer: the
\* loop is left when state["review_result"] is "EXIT"
ExitRequestedAlways(result) == TRUE
ExitRequested(result) == result = "EXIT"

\* BatchReviewerAgent: review_batch_translation, then check_for_batch_review_exit
review_batch_translation ==
  /\ job = "pipeline"
  /\ pc = "review"
  /\ LET b == IF current_batch = "None" THEN 0 ELSE BatchIndex(current_batch)
         unanswered == {q \in 1..Len(clarifying_questions) : ~clarifying_questions[q].answered}
     IN  IF b = 0
         THEN UNCHANGED <<content_batches, clarifying_questions, batch_feedback,
                          completed_batches, revision_needed, review_result, capability_dead>>
         ELSE IF unanswered # {}
         THEN /\ clarifying_questions' =
                   [q \in 1..Len(clarifying_questions) |->
                      IF q \in unanswered
                      THEN [clarifying_questions[q] EXCEPT
                              !.answer = answer_clarifying_question(clarifying_questions[q],
                                                                    current_batch),
                              !.answered = TRUE]
                      ELSE clarifying_questions[q]]
              /\ revision_needed' = TRUE
              /\ UNCHANGED <<content_batches, batch_feedback, completed_batches, review_result,
                             capability_dead>>
         ELSE LET items == content_batches[b].items
                  to_review == {k \in 1..Len(items) : items[k].status = "translated"}
                  asked == {k \in to_review : ReachesQualityReview(items[k])}
              IN  \E response \in [asked -> ReviewCapability] :
                    LET feedback == [k \in to_review |->
                                       review_translation_item(
                                         items[k], IF k \in asked THEN response[k] ELSE Raises)]
                        flagged == {k \in to_review : feedback[k] # "none"}
                        Entry(k) == [path |-> items[k].path,
                                     issue |-> feedback[k],
                                     original |-> items[k].original,
                                     current_translation |-> items[k].translated.text]
                        IsFlagged(k) == k \in flagged
                        order == SelectSeq([k \in 1..Len(items) |-> k], IsFlagged)
                    IN  /\ content_batches' =
                             [content_batches EXCEPT ![b].items =
                                [k \in 1..Len(items) |->
                                   IF k \notin to_review THEN items[k]
                                   ELSE IF k \in flagged
                                   THEN [items[k] EXCEPT !.status = "needs_revision"]
                                   ELSE [items[k] EXCEPT !.status = "approved"]]]
                        /\ batch_feedback' = [j \in 1..Len(order) |-> Entry(order[j])]
                        /\ IF flagged # {}
                           THEN /\ revision_needed' = TRUE
                                /\ review_result' = "Found items needing revision"
                                /\ UNCHANGED completed_batches
                           ELSE /\ completed_batches' = Append(completed_batches, current_batch)
                                /\ revision_needed' = FALSE
                                /\ review_result' = "EXIT"
                        /\ capability_dead' = (capability_dead /\ AllRaise(response))
                        /\ UNCHANGED clarifying_questions
  /\ pc' = IF ExitRequested(review_result') THEN "apply" ELSE "revise"
  /\ UNCHANGED <<job, times_looped, user_input, source_content, input_type, target_language,
                 change_type, workflow_path, translations, glossary, brand_terms,
                 current_batch, final_output, applied, original_document, over_budget,
                 v1_vars, v2_vars>>

\* A revision loop that takes the first item with the path of the finding,
\* whatever its status
RECURSIVE ReviseFromAnyStatus(_, _, _, _)
ReviseFromAnyStatus(items, feedback, responses, j) ==
  IF j > Len(feedback) THEN items
  ELSE LET hits == {k \in 1..Len(items) : items[k].path = feedback[j].path}
           k == CHOOSE h \in hits : \A g \in hits : h <= g
       IN  IF hits = {} THEN ReviseFromAnyStatus(items, feedback, responses, j + 1)
           ELSE ReviseFromAnyStatus(
                  [items EXCEPT ![k] =
                     [@ EXCEPT !.translated =
                                 Some(create_revised_translation(items[k].translated.text,
                                                                 items[k].max_chars, responses[j])),
                               !.status = "revised"]],
                  feedback, responses, j + 1)

\* The loop of revise_batch_translation over the feedback: each entry revises the
\* first item of the batch that has its path and is in needs_revision
RECURSIVE ReviseFrom(_, _, _, _)
ReviseFrom(items, feedback, responses, j) ==
  IF j > Len(feedback) THEN items
  ELSE LET hits == {k \in 1..Len(items) :
                      items[k].path = feedback[j].path /\ items[k].status = "needs_revision"}
           k == CHOOSE h \in hits : \A g \in hits : h <= g
       IN  IF hits = {} THEN ReviseFrom(items, feedback, responses, j + 1)
           ELSE ReviseFrom(
                  [items EXCEPT ![k] =
                     [@ EXCEPT !.translated =
                                 Some(create_revised_translation(items[k].translated.text,
                                                                 items[k].max_chars, responses[j])),
                               !.status = "revised"]],
                  feedback, responses, j + 1)

\* A loop that runs one iteration more than its budget
LoopContinuesOnceMore(n) == n <= max_iterations

\* LoopAgent(max_iterations=10): another iteration starts after n completed ones
LoopContinues(n) == n < max_iterations

\* BatchRevisionAgent: revise_batch_translation, the last agent of the loop body
revise_batch_translation ==
  /\ job = "pipeline"
  /\ pc = "revise"
  /\ IF batch_feedback = << >>
     THEN UNCHANGED <<content_batches, batch_feedback, revision_needed, capability_dead>>
     ELSE \E responses \in [1..Len(batch_feedback) -> Capability] :
            LET b == IF current_batch = "None" THEN 0 ELSE BatchIndex(current_batch)
            IN  /\ content_batches' =
                     IF b = 0 THEN content_batches
                     ELSE [content_batches EXCEPT ![b].items =
                             ReviseFrom(content_batches[b].items, batch_feedback, responses, 1)]
                /\ batch_feedback' = << >>
                /\ revision_needed' = FALSE
                /\ capability_dead' = (capability_dead /\ AllRaise(responses))
  /\ times_looped' = times_looped + 1
  /\ pc' = IF LoopContinues(times_looped + 1) THEN "translate" ELSE "apply"
  /\ UNCHANGED <<job, user_input, source_content, input_type, target_language, change_type,
                 workflow_path, translations, glossary, brand_terms, clarifying_questions,
                 current_batch, completed_batches, review_result, final_output, applied,
                 original_document, over_budget, v1_vars, v2_vars>>

\* ------------------------------------------------------------------------
\* Reassembly and output
\* ------------------------------------------------------------------------

\* All items of all batches, in the order apply visits them
RECURSIVE AllItems(_, _)
AllItems(batches, b) ==
  IF b > Len(batches) THEN << >> ELSE batches[b].items \o AllItems(batches, b + 1)

\* if item["status"] in ["approved", "revised"] and item["translated"]
IsApplicable(item) ==
  /\ item.status \in {"approved", "revised"}
  /\ item.translated # None
  /\ item.translated.text # << >>

\* The loop of apply_batch_translations_to_content.  r.st is "TypeError" when an
\* exception the handler does not catch ended the loop.
RECURSIVE ApplyFrom(_, _, _)
ApplyFrom(items, k, r) ==
  IF k > Len(items) \/ r.st = "TypeError" THEN r
  ELSE IF ~IsApplicable(items[k]) THEN ApplyFrom(items, k + 1, r)
  ELSE LET w == SetAtPath(r.obj, str_split(items[k].path, "."), items[k].translated.text)
       IN  ApplyFrom(items, k + 1,
                     [st |-> IF w.st = "TypeError" THEN "TypeError" ELSE "ok",
                      obj |-> IF w.st = "ok" THEN w.obj ELSE r.obj,
                      applied |-> IF w.st = "ok"
                                  THEN Append(r.applied, [path |-> items[k].path,
                                                          text |-> items[k].translated.text])
                                  ELSE r.applied])

\* A variant that applies the batches to a fresh copy of the request's document
\* instead of the content in the state
apply_batch_translations_to_content_on_request ==
  /\ job = "pipeline"
  /\ pc = "apply"
  /\ LET r == ApplyFrom(AllItems(content_batches, 1), 1,
                        [st |-> "ok", obj |-> parsed_content(user_input), applied |-> << >>])
     IN  /\ source_content' = r.obj
         /\ original_document' = r.obj
         /\ applied' = r.applied
         /\ pc' = IF r.st = "TypeError" THEN "raised" ELSE "output"
  /\ UNCHANGED <<job, times_looped, user_input, input_type, target_language, change_type,
                 workflow_path, translations, glossary, brand_terms, content_batches,
                 clarifying_questions, batch_feedback, current_batch, completed_batches,
                 revision_needed, review_result, final_output, over_budget, v1_vars, v2_vars,
                 capability_dead>>

\* ContentApplicatorAgent: apply_batch_translations_to_content
apply_batch_translations_to_content ==
  /\ job = "pipeline"
  /\ pc = "apply"
  /\ LET r == ApplyFrom(AllItems(content_batches, 1), 1,
                        [st |-> "ok", obj |-> source_content, applied |-> << >>])
     IN  /\ source_content' = r.obj
         /\ original_document' = r.obj
         /\ applied' = r.applied
         /\ pc' = IF r.st = "TypeError" THEN "raised" ELSE "output"
  /\ UNCHANGED <<job, times_looped, user_input, input_type, target_language, change_type,
                 workflow_path, translations, glossary, brand_terms, content_batches,
                 clarifying_questions, batch_feedback, current_batch, completed_batches,
                 revision_needed, review_result, final_output, over_budget, v1_vars, v2_vars,
                 capability_dead>>

\* OutputAgent: build_final_output.  kind "json" stands for the json.dumps text of
\* the document held in value.
build_final_output ==
  /\ job = "pipeline"
  /\ pc = "output"
  /\ pc' = "done"
  /\ final_output' =
       IF input_type = "text" /\ KeyIn(k_plain_text, source_content)
       THEN [kind |-> "text", value |-> DictGet(DictGet(source_content, k_plain_text), k_value)]
       ELSE [kind |-> "json", value |-> source_content]
  /\ UNCHANGED <<job, times_looped, user_input, source_content, input_type, target_language,
                 change_type, workflow_path, translations, glossary, brand_terms,
                 content_batches, clarifying_questions, batch_feedback, current_batch,
                 completed_batches, revision_needed, review_result, applied,
                 original_document, over_budget, v1_vars, v2_vars, capability_dead>>

\* The batch loop when the workflow took the fast track: there are no batches, so
\* the three agents of the body change nothing (translate_content_batch finds no
\* batch, review_batch_translation has no current batch, revise_batch_translation
\* has no feedback); covered by the three loop actions above.

\* ------------------------------------------------------------------------
\* The v1 pipeline: InitialTranslatorAgent, then TranslationRefinementLoop
\* ------------------------------------------------------------------------

V1Translations == {c_hola, c_long}
V1Critiques == {COMPLETION_PHRASE, c_too_literal}

\* InitialTranslatorAgent: output_key current_translation
initial_translator_agent ==
  /\ job = "v1"
  /\ pc = "v1_initial"
  /\ pc' = "v1_critic"
  /\ \E text \in V1Translations : current_translation' = text
  /\ UNCHANGED <<job, times_looped, pipeline_vars, v2_vars, translation_critique, capability_dead>>

\* TranslationCriticAgent: output_key translation_critique
translation_critic_agent ==
  /\ job = "v1"
  /\ pc = "v1_critic"
  /\ pc' = "v1_refiner"
  /\ \E text \in V1Critiques : translation_critique' = text
  /\ UNCHANGED <<job, times_looped, pipeline_vars, v2_vars, current_translation, capability_dead>>

\* LoopAgent(max_iterations=5) of the v1 pipeline
V1LoopContinues(n) == n < v1_max_iterations

\* TranslationRefinerAgent: either calls exit_translation_loop, which escalates and
\* ends the loop, or writes the refined text; the choice is the model's
translation_refiner_agent ==
  /\ job = "v1"
  /\ pc = "v1_refiner"
  /\ \/ /\ pc' = "done"
        /\ UNCHANGED <<times_looped, current_translation>>
     \/ /\ \E text \in V1Translations : current_translation' = text
        /\ times_looped' = times_looped + 1
        /\ pc' = IF V1LoopContinues(times_looped + 1) THEN "v1_critic" ELSE "done"
  /\ UNCHANGED <<job, pipeline_vars, v2_vars, translation_critique, capability_dead>>

\* ------------------------------------------------------------------------
\* translation_agency_v2/char_limit_validator.py (job "validator")
\* ------------------------------------------------------------------------

k_items == <<"i","t","e","m","s">>
k_text == <<"t","e","x","t">>
t_vault == <<"O"," ","V","a","u","l","t">>

\* key in obj / key not in obj, for a str key: "yes", "no" or the exception
py_in(key, obj) ==
  CASE obj.k = "dict" -> IF KeyIn(key, obj) THEN "yes" ELSE "no"
    [] obj.k = "list" -> IF \E i \in 1..Len(obj.vals) : obj.vals[i] = Str(key)
                         THEN "yes" ELSE "no"
    [] obj.k = "str"  -> IF str_in(key, obj.s) THEN "yes" ELSE "no"
    [] OTHER          -> "TypeError"

\* What iterating obj yields (zip, len): the elements of a list, the keys of a
\* dict, the characters of a str
Elements(obj) ==
  CASE obj.k = "list" -> obj.vals
    [] obj.k = "dict" -> [i \in 1..Len(obj.keys) |-> Str(obj.keys[i])]
    [] obj.k = "str"  -> [i \in 1..Len(obj.s) |-> Str(<<obj.s[i]>>)]

\* The returned dict: the keys it holds and their values
ValidationError(error) ==
  [raised |-> "none", keys |-> {"valid", "error"}, valid |-> FALSE, error |-> error,
   violations |-> << >>]
ValidationRaised(exception) ==
  [raised |-> exception, keys |-> {}, valid |-> FALSE, error |-> [kind |-> "none"],
   violations |-> << >>]

\* len(translated_items) != len(original_items)
CountMismatchNever(expected, got) == FALSE
CountMismatch(expected, got) == got # expected

\* The loop over zip(translated_items, original_items).  An item that holds a
\* value reaches original_item.get_character_limit(), which TranslationItem of
\* batch_processor.py does not define.
RECURSIVE ItemChecks(_, _, _, _)
ItemChecks(translated_items, original_items, i, violations) ==
  IF i > Min(Len(translated_items), Len(original_items))
  THEN [raised |-> "none", violations |-> violations]
  ELSE LET has_value == py_in(k_value, translated_items[i])
       IN  IF has_value = "TypeError" THEN [raised |-> "TypeError", violations |-> violations]
           ELSE IF has_value = "no"
           THEN ItemChecks(translated_items, original_items, i + 1,
                           Append(violations,
                                  [item_index |-> i, item_type |-> original_items[i].type,
                                   error |-> "missing_value"]))
           ELSE IF translated_items[i].k # "dict"
           THEN [raised |-> "TypeError", violations |-> violations]
           ELSE [raised |-> "AttributeError", violations |-> violations]

validate_translation_length(json, the_batch) ==
  LET has_items == py_in(k_items, json)
  IN  IF has_items = "TypeError" THEN ValidationRaised("TypeError")
      ELSE IF has_items = "no" THEN ValidationError([kind |-> "missing_items"])
      ELSE IF json.k # "dict" THEN ValidationRaised("TypeError")
      ELSE LET translated_items == DictGet(json, k_items)
               original_items == the_batch.items
           IN  IF translated_items.k = "int" THEN ValidationRaised("TypeError")
               ELSE IF CountMismatch(Len(original_items), Len(Elements(translated_items)))
               THEN ValidationError([kind |-> "item_count_mismatch",
                                     expected |-> Len(original_items),
                                     got |-> Len(Elements(translated_items))])
               ELSE LET checks == ItemChecks(Elements(translated_items), original_items,
                                             1, << >>)
                    IN  IF checks.raised # "none" THEN ValidationRaised(checks.raised)
                        ELSE IF checks.violations # << >>
                        THEN [raised |-> "none",
                              keys |-> {"valid", "violations", "total_violations"},
                              valid |-> FALSE, error |-> [kind |-> "none"],
                              violations |-> checks.violations]
                        ELSE [raised |-> "none", keys |-> {"valid", "message"},
                              valid |-> TRUE, error |-> [kind |-> "none"],
                              violations |-> << >>]

\* One translated item, with and without the value field
WithValue(text) == Dict(<<k_value>>, <<Str(text)>>)
WithoutValue(text) == Dict(<<k_text>>, <<Str(text)>>)

\* The translation outputs handed to the validator
ValidatorOutputs ==
  {Dict(<<k_items>>, <<List(<< >>)>>),
   Dict(<<k_items>>, <<List(<<WithValue(c_hola)>>)>>),
   Dict(<<k_items>>, <<List(<<WithoutValue(c_hola)>>)>>),
   Dict(<<k_items>>, <<List(<<WithoutValue(c_hola), WithoutValue(t_vault)>>)>>),
   Dict(<<k_items>>, <<List(<<WithValue(c_long), WithoutValue(c_hola)>>)>>),
   Dict(<<k_items>>, <<List(<<WithoutValue(c_hola), WithValue(c_long), WithValue(t_vault)>>)>>),
   Dict(<<k_items>>, <<Str(c_hola)>>),
   Dict(<<k_text>>, <<Str(c_hola)>>),
   List(<<WithValue(c_hola)>>),
   EmptyDict}

\* A TranslationItem and the batches handed to the validator
TranslationItem(type, content) == [type |-> type, content |-> content]
ValidatorBatches ==
  {[items |-> <<TranslationItem(t_button, t_login)>>],
   [items |-> <<TranslationItem(t_header, t_octopi_poker), TranslationItem(t_button, t_shop_now)>>],
   [items |-> <<TranslationItem(t_button, t_login), TranslationItem(t_content, t_home),
                TranslationItem(t_button, t_ok), TranslationItem(t_header, t_octopi)>>]}

\* The validator's arguments; the other jobs do not call it
ValidatorInput ==
  /\ translation_json \in (IF job = "validator" THEN ValidatorOutputs ELSE {EmptyDict})
  /\ validator_batch \in (IF job = "validator" THEN ValidatorBatches ELSE {[items |-> << >>]})
  /\ validation_result = [raised |-> "none", keys |-> {}, valid |-> FALSE,
                          error |-> [kind |-> "none"], violations |-> << >>]

\* validate_translation_length(translation_json, batch)
validate_translation_length_call ==
  /\ job = "validator"
  /\ pc = "validate"
  /\ validation_result' = validate_translation_length(translation_json, validator_batch)
  /\ pc' = IF validation_result'.raised = "none" THEN "done" ELSE "raised"
  /\ UNCHANGED <<job, times_looped, pipeline_vars, v1_vars, capability_dead, v3_vars, num_batches,
                 parallel_group, in_flight, session_state, translation_json,
                 validator_batch>>

\* ------------------------------------------------------------------------
\* The staged parallel workflow: translation_agency_v2/agent.py (job "staged",
\* nine translators in three ParallelAgents) and test_staged_parallel.py of the
\* backend (job "staged_test", one translator per batch)
\* ------------------------------------------------------------------------

\* The jobs that run root_agent of agent.py (main.py runs it for a request), and
\* the jobs that run staged translators
root_agent_jobs == {"staged", "sections"}
staged_jobs == root_agent_jobs \cup {"staged_test"}

translation_prefix == <<"t","r","a","n","s","l","a","t","i","o","n","_">>
translation_group_prefix == <<"t","r","a","n","s","l","a","t","i","o","n","_","g","r","o","u","p","_">>

\* agents_per_group = 3
agents_per_group == 3

\* The nine translators of parallel_translator_agents
STATIC_TRANSLATORS == 9

\* Most batches create_batches returns in the runs explored
MaxBatches == 7

\* What one batch translator may leave under its output key
StagedOutputs == {c_hola, c_long}

\* num_parallel_groups = (num_batches + agents_per_group - 1) // agents_per_group
num_parallel_groups(n) == (n + agents_per_group - 1) \div agents_per_group

\* start_idx = group_idx * agents_per_group, for group_idx counted from 0
start_idx(group_idx) == group_idx * agents_per_group

\* end_idx = min(start_idx + agents_per_group, num_batches)
end_idx_one_more(group_idx, n) == Min(start_idx(group_idx) + agents_per_group + 1, n)
end_idx(group_idx, n) == Min(start_idx(group_idx) + agents_per_group, n)

\* all_agents[start_idx:end_idx]: the translators of the ParallelAgent number
\* group_idx + 1, named by the number idx = i + 1 of their batch
group_agents(group_idx, n) == {i + 1 : i \in start_idx(group_idx)..(end_idx(group_idx, n) - 1)}

\* output_key of the translator of batch idx: "translation_group_<idx>" in
\* agent.py, f"translation_{i+1}" in the test
OutputKeyOfSlot(idx) ==
  (IF job \in root_agent_jobs THEN translation_group_prefix ELSE translation_prefix)
    \o int_str(((idx - 1) % agents_per_group) + 1)
OutputKey(idx) ==
  (IF job \in root_agent_jobs THEN translation_group_prefix ELSE translation_prefix) \o int_str(idx)

\* state[key] = value
StateSet(state, key, value) ==
  [k \in DOMAIN state \cup {key} |-> IF k = key THEN value ELSE state[k]]

\* The session before the run; the source_text_<i> entries are not modelled
StagedSession ==
  /\ num_batches \in (CASE job \in root_agent_jobs -> {STATIC_TRANSLATORS}
                        [] job = "staged_test" -> 1..MaxBatches
                        [] OTHER               -> {0})
  /\ parallel_group = 0
  /\ in_flight = {}
  /\ session_state = << >>

\* ------------------------------------------------------------------------
\* fullstack_app/backend/main.py: translate_sections (job "sections").  The
\* request is translated by root_agent of translation_agency_v2/agent.py; the
\* handler then reads the translations back from the session state.
\* ------------------------------------------------------------------------

\* SectionContent and PageSection of a request
SectionContent(type, value) == [type |-> type, value |-> value]
PageSection(section_id, display_title, content) ==
  [section_id |-> section_id, title |-> section_id, display_title |-> display_title,
   content |-> content]

\* The requests explored, all of them for Spanish
Requests ==
  {<<PageSection(<<"n","a","v">>, None,
                 <<SectionContent(t_header, t_home), SectionContent(t_button, t_login)>>)>>,
   <<PageSection(<<"h","e","r","o">>, Some(t_octopi), <<SectionContent(t_button, t_play)>>),
     PageSection(<<"n","a","v">>, None,
                 <<SectionContent(t_header, t_home), SectionContent(t_button, t_login)>>)>>}
request_target_language == <<"S","p","a","n","i","s","h">>

\* What a batch translator may leave under its output key: the text, and what
\* json.loads makes of it
Output(text, parsed) == [text |-> text, parsed |-> parsed]
SectionOutputs ==
  {Output(c_hola, Fail("JSONDecodeError")),
   Output(<<"H","o","l","a","\n","E","n","t","r","a","r">>, Fail("JSONDecodeError")),
   Output(<<"{","\"","i","t","e","m","s","\"",":","[","{","\"","v","a","l","u","e","\"",":","\"","H","o","l","a","\"","}",",","{","\"","v","a","l","u","e","\"",":","\"","E","n","t","r","a","r","\"","}","]","}">>,
          Ok(Dict(<<k_items>>, <<List(<<WithValue(c_hola), WithValue(<<"E","n","t","r","a","r">>)>>)>>))),
   Output(<<"{","\"","i","t","e","m","s","\"",":","[","{","\"","v","a","l","u","e","\"",":","\"","H","o","l","a","\"","}","]","}">>,
          Ok(Dict(<<k_items>>, <<List(<<WithValue(c_hola)>>)>>))),
   Output(<<"{","\"","i","t","e","m","s","\"",":","[","]","}">>, Ok(Dict(<<k_items>>, <<List(<< >>)>>))),
   Output(<<"BT","BT","BT","j","s","o","n","\n","{","\"","i","t","e","m","s","\"",":","[","{","\"","v","a","l","u","e","\"",":","\"","H","o","l","a","\"","}","]","}","\n","BT","BT","BT">>, Fail("JSONDecodeError")),
   Output(<<"4","2">>, Ok(Num(42))),
   Output(<<"{","\"","i","t","e","m","s","\"",":","[","{","\"","t","e","x","t","\"",":","\"","H","o","l","a","\"","}","]","}">>,
          Ok(Dict(<<k_items>>, <<List(<<WithoutValue(c_hola)>>)>>))),
   Output(<<"[","\"","H","o","l","a","\"","]">>, Ok(List(<<Str(c_hola)>>))),
   Output(<<"{","\"","t","e","x","t","\"",":","\"","H","o","l","a","\"","}">>, Ok(Dict(<<k_text>>, <<Str(c_hola)>>))),
   Output(<< >>, Fail("JSONDecodeError"))}

\* The outputs of the translator of batch idx: in a sections job the translators
\* of the request's sections answer in any of the forms above
TranslatorOutputs(idx) ==
  IF job # "sections" THEN StagedOutputs
  ELSE IF idx <= Len(request) THEN SectionOutputs
  ELSE {Output(c_hola, Fail("JSONDecodeError"))}

\* possible_keys of section i, in the order they are tried
possible_keys(i) ==
  <<translation_group_prefix \o int_str(i),
    translation_prefix \o int_str(i),
    <<"g","r","o","u","p","_">> \o int_str(i) \o <<"_","t","r","a","n","s","l","a","t","i","o","n">>,
    <<"t","r","a","n","s","l","a","t","e","d","_","g","r","o","u","p","_">> \o int_str(i)>>

\* translation_data: the value of the first possible key the state holds, None
\* when it holds none of them
translation_data(state, i) ==
  LET found == {n \in 1..Len(possible_keys(i)) : possible_keys(i)[n] \in DOMAIN state}
  IN  IF found = {} THEN Output(<< >>, Fail("JSONDecodeError"))
      ELSE state[possible_keys(i)[CHOOSE n \in found : \A o \in found : n <= o]].text

\* translated_items of a str translation_data: the items of the JSON object, the
\* whole text as one item when the JSON holds no items, its non-blank lines
\* when it is not JSON
translated_items(data) ==
  IF data.parsed.st # "ok"
  THEN LET lines == str_split(str_strip(data.text), "\n")
           NotBlank(line) == str_strip(line) # << >>
           kept == SelectSeq(lines, NotBlank)
       IN  Ok(List([n \in 1..Len(kept) |-> WithValue(str_strip(kept[n]))]))
  ELSE LET has_items == py_in(k_items, data.parsed.obj)
       IN  IF has_items = "TypeError" THEN Fail("TypeError")
           ELSE IF has_items = "no" THEN Ok(List(<<WithValue(data.text)>>))
           ELSE IF data.parsed.obj.k # "dict" THEN Fail("TypeError")
           ELSE Ok(DictGet(data.parsed.obj, k_items))

\* bool(x) and len(x) of a JSON value
Truthy(obj) ==
  CASE obj.k = "list" -> obj.vals # << >>
    [] obj.k = "dict" -> obj.keys # << >>
    [] obj.k = "str"  -> obj.s # << >>
    [] OTHER          -> obj.n # 0
PyLen(obj) ==
  CASE obj.k = "list" -> Len(obj.vals)
    [] obj.k = "dict" -> Len(obj.keys)
    [] obj.k = "str"  -> Len(obj.s)
    [] OTHER          -> -1

\* items[n]["value"] for n counted from 0, as the str field of a response model
ItemValue(items, n) ==
  IF items.k = "dict" THEN Fail("KeyError")
  ELSE IF items.k # "list" THEN Fail("TypeError")
  ELSE LET item == items.vals[n + 1]
       IN  IF item.k # "dict" THEN Fail("TypeError")
           ELSE IF ~KeyIn(k_value, item) THEN Fail("KeyError")
           ELSE IF DictGet(item, k_value).k # "str" THEN Fail("ValidationError")
           ELSE Ok(DictGet(item, k_value))

\* "Map back to section content structure": the translated content of one
\* section from its items, or the exception
RECURSIVE MapBack(_, _, _, _, _)
MapBack(content, items, content_start_index, j, translated_content) ==
  IF j >= Len(content) THEN [st |-> "ok", content |-> translated_content]
  ELSE IF PyLen(items) < 0 THEN [st |-> "TypeError", content |-> << >>]
  ELSE LET translated_index == j + content_start_index
           value == IF translated_index < PyLen(items) THEN ItemValue(items, translated_index)
                    ELSE IF Truthy(items) THEN ItemValue(items, PyLen(items) - 1)
                    ELSE Ok(Str(<<"[","N","o"," ","t","r","a","n","s","l","a","t","i","o","n"," ","a","v","a","i","l","a","b","l","e","]">>))
       IN  IF value.st # "ok" THEN [st |-> value.st, content |-> << >>]
           ELSE MapBack(content, items, content_start_index, j + 1,
                        Append(translated_content,
                               SectionContent(content[j + 1].type, value.obj.s)))

\* The TranslatedSection of one request section, or the exception
TranslatedSection(original_section, data) ==
  IF data.text = << >>
  THEN [st |-> "ok",
        section |-> [section_id |-> original_section.section_id,
                     title |-> <<"[","N","o"," ","T","r","a","n","s","l","a","t","i","o","n"," ","F","o","u","n","d","]"," ">> \o original_section.title,
                     display_title |-> None,
                     content |-> <<SectionContent(t_content, <<"N","o"," ","t","r","a","n","s","l","a","t","i","o","n"," ","a","v","a","i","l","a","b","l","e"," ","-"," ","c","h","e","c","k"," ","a","g","e","n","t"," ","o","u","t","p","u","t">>)>>]]
  ELSE LET items == translated_items(data)
           titled == /\ items.st = "ok"
                     /\ Truthy(items.obj)
                     /\ original_section.display_title.some
                     /\ original_section.display_title.text # << >>
           title_value == IF titled THEN ItemValue(items.obj, 0) ELSE Ok(Str(<< >>))
           mapped == MapBack(original_section.content, items.obj, IF titled THEN 1 ELSE 0,
                             0, << >>)
       IN  IF items.st # "ok" THEN [st |-> items.st]
           ELSE IF title_value.st # "ok" THEN [st |-> title_value.st]
           ELSE IF mapped.st # "ok" THEN [st |-> mapped.st]
           ELSE [st |-> "ok",
                 section |-> [section_id |-> original_section.section_id,
                              title |-> original_section.title \o <<" ", "(">>
                                          \o request_target_language \o <<")">>,
                              display_title |-> IF titled THEN Some(title_value.obj.s) ELSE None,
                              content |-> mapped.content]]

\* The request's sections read back from the state, in order
translated_sections(state) ==
  [i \in 1..Len(request) |-> TranslatedSection(request[i], translation_data(state, i))]

\* translate_sections once the run of root_agent has ended: the response, or
\* HTTP 500 when the run or the reading of the state raised
translate_sections ==
  /\ job = "sections"
  /\ pc \in {"run_ended", "staged_error"}
  /\ pc' = "done"
  /\ LET sections == translated_sections(session_state)
         raised == {i \in 1..Len(sections) : sections[i].st # "ok"}
     IN  api_response' =
           IF pc = "staged_error" THEN [status |-> 500, detail |-> "Exception"]
           ELSE IF raised # {}
           THEN [status |-> 500,
                 detail |-> sections[CHOOSE i \in raised : \A o \in raised : i <= o].st]
           ELSE [status |-> 200,
                 translated_sections |-> [i \in 1..Len(sections) |-> sections[i].section],
                 target_language |-> request_target_language,
                 total_sections |-> Len(sections)]
  /\ UNCHANGED <<job, times_looped, pipeline_vars, v1_vars, capability_dead, num_batches,
                 parallel_group, in_flight, session_state, translation_json, validator_batch,
                 validation_result, agent_events, request, processor_vars, v4_vars>>

\* ------------------------------------------------------------------------
\* The agents of the staged workflow
\* ------------------------------------------------------------------------

\* SequentialAgent: the next ParallelAgent starts once the one before it has
\* ended, and starts all its sub-agents
parallel_group_starts ==
  /\ job \in staged_jobs
  /\ pc \in {"staged_start", "staged_run"}
  /\ in_flight = {}
  /\ parallel_group < num_parallel_groups(num_batches)
  /\ parallel_group' = parallel_group + 1
  /\ in_flight' = group_agents(parallel_group, num_batches)
  /\ pc' = "staged_run"
  /\ UNCHANGED <<job, times_looped, pipeline_vars, v1_vars, capability_dead, v3_vars, num_batches,
                 session_state, translation_json, validator_batch, validation_result>>

\* The agent that runs after the last ParallelAgent: ParallelBatchReviewer in
\* agent.py, the post-processing in the test
AfterStages == IF job \in root_agent_jobs THEN "batch_review" ELSE "post_process"

\* A batch translator ends: its output goes to its output_key.  by records the
\* translator the value came from.
batch_translator_finishes ==
  /\ job \in staged_jobs
  /\ pc = "staged_run"
  /\ \E idx \in in_flight : \E text \in TranslatorOutputs(idx) :
       /\ session_state' = StateSet(session_state, OutputKey(idx), [by |-> idx, text |-> text])
       /\ in_flight' = in_flight \ {idx}
       /\ pc' = IF in_flight' = {} /\ parallel_group = num_parallel_groups(num_batches)
                THEN AfterStages ELSE "staged_run"
  /\ UNCHANGED <<job, times_looped, pipeline_vars, v1_vars, capability_dead, v3_vars, num_batches,
                 parallel_group, translation_json, validator_batch, validation_result>>

\* A batch translator raises: the exception ends the run (the test catches it
\* around runner.run_async) and the other translators of the group are cancelled
batch_translator_raises ==
  /\ job \in staged_jobs
  /\ pc = "staged_run"
  /\ in_flight # {}
  /\ in_flight' = {}
  /\ pc' = "staged_error"
  /\ UNCHANGED <<job, times_looped, pipeline_vars, v1_vars, capability_dead, v3_vars, num_batches,
                 parallel_group, session_state, translation_json, validator_batch, validation_result>>


\* ParallelBatchReviewer, the second agent of root_agent: its answer goes to
\* batch_review_results; a failing model call ends the run
batch_review_agent ==
  /\ job \in root_agent_jobs
  /\ pc = "batch_review"
  /\ \/ /\ session_state' = StateSet(session_state,
                                     <<"b","a","t","c","h","_","r","e","v","i","e","w","_","r","e","s","u","l","t","s">>,
                                     [by |-> 0, text |-> c_hola])
        /\ agent_events' = Append(agent_events, "ParallelBatchReviewer")
        /\ pc' = "batch_regeneration"
     \/ /\ pc' = "staged_error"
        /\ UNCHANGED <<session_state, agent_events>>
  /\ UNCHANGED <<job, times_looped, pipeline_vars, v1_vars, capability_dead, num_batches,
                 parallel_group, in_flight, translation_json, validator_batch,
                 validation_result, request, api_response, processor_vars, v4_vars>>

\* BatchRegenerationAgent, the third agent of root_agent
batch_regeneration_agent ==
  /\ job \in root_agent_jobs
  /\ pc = "batch_regeneration"
  /\ \/ /\ session_state' = StateSet(session_state,
                                     <<"r","e","g","e","n","e","r","a","t","e","d","_","t","r","a","n","s","l","a","t","i","o","n","s">>,
                                     [by |-> 0, text |-> c_hola])
        /\ agent_events' = Append(agent_events, "BatchRegenerationAgent")
        /\ pc' = "final_refinement"
     \/ /\ pc' = "staged_error"
        /\ UNCHANGED <<session_state, agent_events>>
  /\ UNCHANGED <<job, times_looped, pipeline_vars, v1_vars, capability_dead, num_batches,
                 parallel_group, in_flight, translation_json, validator_batch,
                 validation_result, request, api_response, processor_vars, v4_vars>>

\* FinalRefinementAgent, the last agent of root_agent
final_refinement_agent ==
  /\ job \in root_agent_jobs
  /\ pc = "final_refinement"
  /\ \/ /\ session_state' = StateSet(session_state,
                                     <<"f","i","n","a","l","_","t","r","a","n","s","l","a","t","i","o","n","s">>,
                                     [by |-> 0, text |-> c_hola])
        /\ agent_events' = Append(agent_events, "FinalRefinementAgent")
        /\ pc' = "run_ended"
     \/ /\ pc' = "staged_error"
        /\ UNCHANGED <<session_state, agent_events>>
  /\ UNCHANGED <<job, times_looped, pipeline_vars, v1_vars, capability_dead, num_batches,
                 parallel_group, in_flight, translation_json, validator_batch,
                 validation_result, request, api_response, processor_vars, v4_vars>>
\* ------------------------------------------------------------------------
\* batch_processor.py: ContentBatchProcessor
\* ------------------------------------------------------------------------

\* How often a caller runs create_batches on one processor
MaxCalls == 2

\* {"pages": {"name": "Home", "group_1": {"meta_data": "Hero", "title": ..,
\* "cta": ..}, "group_2": {"meta_data": "Footer"}}}: one group with two items and
\* one group with none
FILE_TWO_GROUPS ==
  Dict(<<k_pages>>,
       <<Dict(<<k_name, k_group_1, k_group_2>>,
              <<Str(t_home),
                Dict(<<k_meta_data, k_title, k_cta>>,
                     <<Str(t_hero), Leaf(t_header, t_octopi_poker), Leaf(t_button, t_login)>>),
                Dict(<<k_meta_data>>, <<Str(t_footer)>>)>>)>>)

\* {"pages": {"group_1": {"meta_data": "Hero", "a": .., "links": [..]},
\* "group_2": {"title": ..}}}: a leaf inside a list, and a group without meta_data
FILE_NESTED ==
  Dict(<<k_pages>>,
       <<Dict(<<k_group_1, k_group_2>>,
              <<Dict(<<k_meta_data, k_a, k_links>>,
                     <<Str(t_hero), Leaf(t_content, t_play), List(<<Leaf(t_button, t_ok)>>)>>),
                Dict(<<k_title>>, <<Leaf(t_header, t_octopi)>>)>>)>>)

\* {"pages": {"a_b": {"meta_data": "Hero", "c": ..}, "a": {"meta_data": "Footer",
\* "b_c": ..}}}: two groups whose keys hold an underscore
FILE_UNDERSCORES ==
  Dict(<<k_pages>>,
       <<Dict(<<k_a_b, k_a>>,
              <<Dict(<<k_meta_data, k_c>>, <<Str(t_hero), Leaf(t_content, t_run)>>),
                Dict(<<k_meta_data, k_b_c>>, <<Str(t_footer), Leaf(t_content, t_bank)>>)>>)>>)

\* {"pages": {"group_1": {"meta_data": "Hero", "a": {"type": "content", "value": 42}}}}
FILE_NUMBER ==
  Dict(<<k_pages>>,
       <<Dict(<<k_group_1>>,
              <<Dict(<<k_meta_data, k_a>>,
                     <<Str(t_hero),
                       Dict(<<k_type, k_value>>, <<Str(t_content), Num(42)>>)>>)>>)>>)

\* {"pages": {"group_1": {"title": ..}, "group_2": {"meta_data": "Footer",
\* "a": {"value": "Run"}, "cta": ..}}}: a first group without meta_data, and a
\* node with a value and no type before a leaf
FILE_SHIFTED ==
  Dict(<<k_pages>>,
       <<Dict(<<k_group_1, k_group_2>>,
              <<Dict(<<k_title>>, <<Leaf(t_header, t_octopi)>>),
                Dict(<<k_meta_data, k_a, k_cta>>,
                     <<Str(t_footer), Dict(<<k_value>>, <<Str(t_run)>>),
                       Leaf(t_button, t_login)>>)>>)>>)

\* The documents json.load may find in the content file; {} is an empty file
ContentFiles ==
  {FILE_TWO_GROUPS, FILE_NESTED, FILE_UNDERSCORES, FILE_NUMBER, FILE_SHIFTED, EmptyDict}

TranslationBatch(batch_id, group_id, group_name, group_description, items, total_items) ==
  [batch_id |-> batch_id, group_id |-> group_id, group_name |-> group_name,
   group_description |-> group_description, items |-> items, total_items |-> total_items]

\* _create_batches_by_group, the loop over group_data.items() from entry i on:
\* the TranslationItems of one group, or the TypeError of len() of a number
RECURSIVE GroupItems(_, _, _)
GroupItems(group_key, group_data, i) ==
  IF i > Len(group_data.keys) THEN [st |-> "ok", items |-> << >>]
  ELSE LET item_key == group_data.keys[i]
           item_data == group_data.vals[i]
           group_name == DictGet(group_data, k_meta_data)
           rest == GroupItems(group_key, group_data, i + 1)
       IN  IF item_key = k_meta_data \/ ~IsTranslatable(item_data) THEN rest
           ELSE IF PyLen(DictGet(item_data, k_value)) < 0
                THEN [st |-> "TypeError", items |-> << >>]
           ELSE IF rest.st # "ok" THEN rest
           ELSE [st |-> "ok",
                 items |-> <<[id |-> group_key \o <<"_">> \o item_key,
                              type |-> DictGet(item_data, k_type),
                              content |-> DictGet(item_data, k_value),
                              context |-> py_str(group_name) \o <<" ", "-", " ">> \o item_key,
                              group_id |-> group_key,
                              group_name |-> group_name,
                              original_length |-> PyLen(DictGet(item_data, k_value))]>>
                           \o rest.items]

\* _create_batches_by_group, the loop over pages.items() from entry g on
RECURSIVE GroupBatches(_, _)
GroupBatches(pages, g) ==
  IF g > Len(pages.keys) THEN [st |-> "ok", batches |-> << >>]
  ELSE LET group_key == pages.keys[g]
           group_data == pages.vals[g]
           rest == GroupBatches(pages, g + 1)
       IN  IF group_key = k_name THEN rest
           ELSE IF group_data.k # "dict" \/ ~KeyIn(k_meta_data, group_data) THEN rest
           ELSE LET r == GroupItems(group_key, group_data, 1)
                    group_name == DictGet(group_data, k_meta_data)
                IN  IF r.st # "ok" THEN [st |-> r.st, batches |-> << >>]
                    ELSE IF rest.st # "ok" THEN rest
                    ELSE IF r.items = << >> THEN rest
                    ELSE [st |-> "ok",
                          batches |-> <<TranslationBatch(<<"b", "a", "t", "c", "h", "_">> \o group_key,
                                                         group_key, group_name, group_name,
                                                         r.items, Len(r.items))>>
                                      \o rest.batches]

\* _create_batches_by_group: one batch per group of data["pages"], or the
\* exception it raises
create_batches_by_group(data) ==
  LET pages == IF KeyIn(k_pages, data) THEN DictGet(data, k_pages) ELSE EmptyDict
  IN  IF pages.k # "dict" THEN [st |-> "AttributeError", batches |-> << >>]
      ELSE GroupBatches(pages, 1)

\* create_batches run again: a variant that adds the new batches to the ones a
\* former run left in self.batches
create_batches_keeps_former ==
  /\ job = "batches"
  /\ pc \in {"processor", "batches_returned", "batches_raised"}
  /\ create_batches_calls < MaxCalls
  /\ LET data == IF Truthy(content_data) THEN content_data ELSE content_file
         r == create_batches_by_group(data)
     IN  /\ content_data' = data
         /\ processor_batches' = processor_batches \o r.batches
         /\ pc' = IF r.st = "ok" THEN "batches_returned" ELSE "batches_raised"
  /\ create_batches_calls' = create_batches_calls + 1
  /\ UNCHANGED <<job, times_looped, pipeline_vars, v1_vars, num_batches, parallel_group,
                 in_flight, session_state, translation_json, validator_batch,
                 validation_result, agent_events, request, api_response, content_file,
                 capability_dead, v4_vars>>

\* ContentBatchProcessor.create_batches, with load_content when content_data is
\* None or empty; an exception leaves self.batches as it was
create_batches ==
  /\ job = "batches"
  /\ pc \in {"processor", "batches_returned", "batches_raised"}
  /\ create_batches_calls < MaxCalls
  /\ LET data == IF Truthy(content_data) THEN content_data ELSE content_file
         r == create_batches_by_group(data)
     IN  /\ content_data' = data
         /\ processor_batches' = IF r.st = "ok" THEN r.batches ELSE processor_batches
         /\ pc' = IF r.st = "ok" THEN "batches_returned" ELSE "batches_raised"
  /\ create_batches_calls' = create_batches_calls + 1
  /\ UNCHANGED <<job, times_looped, pipeline_vars, v1_vars, num_batches, parallel_group,
                 in_flight, session_state, translation_json, validator_batch,
                 validation_result, agent_events, request, api_response, content_file,
                 capability_dead, v4_vars>>

\* test_staged_parallel, post-processing: the group that translation_<i> is
\* written into
post_processing_group_key(i) == <<"g", "r", "o", "u", "p", "_">> \o int_str(i)

\* test_staged_parallel, post-processing: the keys of a group that take the
\* items of its translation, in the group's order
RECURSIVE translatable_keys(_, _)
translatable_keys(group_data, i) ==
  IF i > Len(group_data.keys) THEN << >>
  ELSE LET k == group_data.keys[i]
           v == group_data.vals[i]
       IN  (IF k # k_meta_data /\ v.k = "dict" /\ KeyIn(k_value, v) THEN <<k>> ELSE << >>)
             \o translatable_keys(group_data, i + 1)

\* ------------------------------------------------------------------------
\* calculate_max_chars called on its own
\* ------------------------------------------------------------------------

\* The longest original text calculate_max_chars is called with
MaxOriginalLength == 50

\* The target languages of the call: the five of expansion_factors and one
\* that is not in the table
BudgetLanguages == {"Spanish", "French", "German", "Portuguese", "Italian", "Japanese"}

\* One call calculate_max_chars(original_length, target_language)
calculate_max_chars_call ==
  /\ job = "max_chars"
  /\ pc = "max_chars"
  /\ pc' = "max_chars_returned"
  /\ max_chars_returned' = calculate_max_chars(max_chars_call.original_length,
                                               max_chars_call.target_language)
  /\ UNCHANGED <<earlier_vars, max_chars_call, callback_vars, website_results>>

\* ------------------------------------------------------------------------
\* char_limit_validator.py: create_length_validation_callback, used as the
\* after_agent_callback of the translator of each batch (job "callback")
\* ------------------------------------------------------------------------

\* {"pages": {"group_1": {"meta_data": "Hero", "title": .., "cta": ..},
\* "group_2": {"meta_data": "Footer", "a": ..}}}: two groups with items
FILE_TWO_BATCHES ==
  Dict(<<k_pages>>,
       <<Dict(<<k_group_1, k_group_2>>,
              <<Dict(<<k_meta_data, k_title, k_cta>>,
                     <<Str(t_hero), Leaf(t_header, t_octopi_poker), Leaf(t_button, t_login)>>),
                Dict(<<k_meta_data, k_a>>, <<Str(t_footer), Leaf(t_content, t_play)>>)>>)>>)

\* The batches the callbacks are created for, batch i for the translator with
\* output_key translation_<i>
callback_batches == create_batches_by_group(FILE_TWO_BATCHES).batches

\* What a translator may leave under its output key: a dict with one translated
\* item, a str that is the JSON of a dict without items, a str that is not
\* JSON, and a number
CallbackOutputs ==
  {Dict(<<k_items>>, <<List(<<WithValue(c_hola)>>)>>),
   [k |-> "str", s |-> <<"{","\"","t","e","x","t","\"",":","\"","H","o","l","a","\"","}">>,
    parsed |-> Ok(Dict(<<k_text>>, <<Str(c_hola)>>))],
   [k |-> "str", s |-> c_hola, parsed |-> Fail("JSONDecodeError")],
   Num(42)}

\* The first key of the state that starts with "translation_": the index of the
\* key, 0 when there is none
FirstTranslationKey(state) ==
  LET found == {n \in 1..Len(state.keys) : str_startswith(state.keys[n], translation_prefix)}
  IN  IF found = {} THEN 0 ELSE CHOOSE n \in found : \A o \in found : n <= o

\* The translation_json the callback validates: the dict itself, json.loads of
\* a str, or nothing for any other type and for a str that is not JSON
CallbackJson(data) ==
  CASE data.k = "str"  -> data.parsed
    [] data.k = "dict" -> Ok(data)
    [] OTHER                       -> Fail("unexpected_type")

\* The state after the callback flagged translation_key for the batch:
\* state[f"{translation_key}_length_violations"] and the feedback message for
\* batch.group_name added to state["regeneration_feedback"]
FlaggedState(state, translation_key, violations, the_batch) ==
  LET flagged ==
        DictSet(state, translation_key \o <<"_","l","e","n","g","t","h","_","v","i","o","l","a","t","i","o","n","s">>,
                Dict(<<k_violations, k_total_violations, k_needs_regeneration, k_batch_id>>,
                     <<List(violations), Num(Len(violations)), [k |-> "bool", b |-> TRUE],
                       Str(the_batch.batch_id)>>))
      current_feedback == IF KeyIn(k_regeneration_feedback, flagged)
                          THEN DictGet(flagged, k_regeneration_feedback).vals
                          ELSE << >>
  IN  DictSet(flagged, k_regeneration_feedback,
              List(Append(current_feedback, the_batch.group_name)))

\* The translator of batch b ends and its output_key is written
callback_translator_ends ==
  /\ job = "callback"
  /\ pc = "translators"
  /\ \E b \in 1..Len(callback_batches) : \E output \in CallbackOutputs :
       /\ ~KeyIn(translation_prefix \o int_str(b), callback_state)
       /\ callback_state' = DictSet(callback_state, translation_prefix \o int_str(b), output)
  /\ UNCHANGED <<earlier_vars, pc, budget_vars, callback_done, callback_log, website_results>>

\* length_validation_callback of batch b, after the translator of b has ended
length_validation_callback ==
  /\ job = "callback"
  /\ pc = "translators"
  /\ \E b \in 1..Len(callback_batches) :
       /\ KeyIn(translation_prefix \o int_str(b), callback_state)
       /\ b \notin callback_done
       /\ callback_done' = callback_done \cup {b}
       /\ LET n == FirstTranslationKey(callback_state)
              translation_key == callback_state.keys[n]
              parsed_json == CallbackJson(callback_state.vals[n])
              result == validate_translation_length(parsed_json.obj, callback_batches[b])
          IN  IF n = 0 \/ parsed_json.st # "ok"
              THEN /\ callback_log' = Append(callback_log, [batch |-> b, flagged |-> FALSE,
                                                          key |-> IF n = 0 THEN << >> ELSE translation_key])
                   /\ UNCHANGED <<pc, callback_state>>
              ELSE IF result.raised # "none"
              THEN /\ pc' = "callback_raised"
                   /\ callback_log' = Append(callback_log, [batch |-> b, key |-> translation_key, flagged |-> FALSE])
                   /\ UNCHANGED callback_state
              ELSE IF result.valid
              THEN /\ callback_log' = Append(callback_log, [batch |-> b, key |-> translation_key, flagged |-> FALSE])
                   /\ UNCHANGED <<pc, callback_state>>
              ELSE IF result.violations # << >>
              THEN \* violation['translated_length'] of a missing-value violation: KeyError
                   /\ pc' = "callback_raised"
                   /\ callback_log' = Append(callback_log, [batch |-> b, key |-> translation_key, flagged |-> FALSE])
                   /\ UNCHANGED callback_state
              ELSE /\ callback_state' = FlaggedState(callback_state, translation_key, << >>,
                                                     callback_batches[b])
                   /\ callback_log' = Append(callback_log, [batch |-> b, key |-> translation_key, flagged |-> TRUE])
                   /\ UNCHANGED pc
  /\ UNCHANGED <<earlier_vars, budget_vars, website_results>>

\* ------------------------------------------------------------------------
\* website_translation_workflow.py: WebsiteTranslationWorkflow (job "website")
\* ------------------------------------------------------------------------

\* translate_website: load_content and create_batches of the processor, then
\* the results dict.  Building the dict evaluates the name batch_strategy,
\* which is bound nowhere in the module, so the call ends in NameError before
\* the loop over the batches; an exception of create_batches ends it earlier.
translate_website ==
  /\ job = "website"
  /\ pc = "website"
  /\ LET r == create_batches_by_group(content_file)
     IN  /\ content_data' = content_file
         /\ processor_batches' = IF r.st = "ok" THEN r.batches ELSE processor_batches
         /\ create_batches_calls' = create_batches_calls + 1
         /\ website_results' = [returned |-> FALSE,
                                raised |-> IF r.st = "ok" THEN "NameError" ELSE r.st,
                                batch_results |-> << >>]
  /\ pc' = "website_raised"
  /\ UNCHANGED <<job, times_looped, pipeline_vars, v1_vars, capability_dead, num_batches,
                 parallel_group, in_flight, session_state, translation_json, validator_batch,
                 validation_result, agent_events, request, api_response, content_file,
                 budget_vars, callback_vars>>

\* ------------------------------------------------------------------------
\* Specification
\* ------------------------------------------------------------------------

Init ==
  /\ job \in {"pipeline", "v1", "staged", "staged_test", "validator", "sections", "batches", "max_chars", "callback",
              "website", "router"}
  /\ pc = CASE job \in {"pipeline", "router"} -> "router"
            [] job = "v1"        -> "v1_initial"
            [] job \in staged_jobs -> "staged_start"
            [] job = "validator" -> "validate"
            [] job = "batches"   -> "processor"
            [] job = "max_chars" -> "max_chars"
            [] job = "callback"  -> "translators"
            [] job = "website"   -> "website"
  /\ user_input \in (CASE job \in {"pipeline", "v1"} -> Inputs
                       [] job = "router"            -> RouterInputs
                       [] OTHER                     -> {INPUT_BAD_JSON})
  /\ SessionState
  /\ times_looped = 0
  /\ current_translation = << >>
  /\ translation_critique = << >>
  /\ capability_dead = TRUE
  /\ original_document = EmptyDict
  /\ over_budget = {}
  /\ StagedSession
  /\ ValidatorInput
  /\ agent_events = << >>
  /\ request \in (IF job = "sections" THEN Requests ELSE {<< >>})
  /\ api_response = [status |-> "none"]
  /\ content_file \in (IF job \in {"batches", "website"} THEN ContentFiles ELSE {EmptyDict})
  /\ content_data = EmptyDict
  /\ processor_batches = << >>
  /\ create_batches_calls = 0
  /\ max_chars_call \in (IF job = "max_chars"
                          THEN [original_length : 0..MaxOriginalLength,
                                target_language : BudgetLanguages]
                          ELSE {[original_length |-> 0, target_language |-> "Spanish"]})
  /\ max_chars_returned = -1
  /\ callback_state = EmptyDict
  /\ callback_done = {}
  /\ callback_log = << >>
  /\ website_results = [returned |-> FALSE, raised |-> "none", batch_results |-> << >>]

Next ==
  \/ analyze_and_route_content
  \/ fast_track_translate
  \/ organize_content_into_batches
  \/ translate_content_batch
  \/ review_batch_translation
  \/ revise_batch_translation
  \/ apply_batch_translations_to_content
  \/ build_final_output
  \/ initial_translator_agent
  \/ translation_critic_agent
  \/ translation_refiner_agent
  \/ parallel_group_starts
  \/ batch_translator_finishes
  \/ batch_translator_raises
  \/ batch_review_agent
  \/ batch_regeneration_agent
  \/ final_refinement_agent
  \/ translate_sections
  \/ create_batches
  \/ calculate_max_chars_call
  \/ callback_translator_ends
  \/ length_validation_callback
  \/ translate_website
  \/ validate_translation_length_call

Spec == Init /\ [][Next]_vars

\* ------------------------------------------------------------------------
\* What the properties speak about
\* ------------------------------------------------------------------------

\* The leaves of the request's document and of the document as it is now, in
\* visiting order, and the text a leaf holds
OriginalLeaves == Leaves(parsed_content(user_input), << >>)
FinalLeaves == Leaves(source_content, << >>)
LeafValue(leaf) == py_str(DictGet(leaf.obj, k_value))

\* The batch item that was segmented from leaf i of the request's document: the
\* items of a batch are the leaves of its content type, in visiting order
ItemOfLeaf(i) ==
  LET Category(j) == classify_content_type(OriginalLeaves[j].obj, OriginalLeaves[j].path)
      rank == Cardinality({j \in 1..i : Category(j) = Category(i)})
  IN  content_batches[BatchIndex(Category(i))].items[rank]

\* The batch pipeline has left the loop and written the translations back
Reassembled ==
  /\ job = "pipeline"
  /\ workflow_path = "batch_pipeline"
  /\ pc \in {"output", "done"}

\* No key of the document holds a dot, so that the dotted path of a leaf names
\* that leaf and no other place of the document
RECURSIVE HasPlainKeys(_)
HasPlainKeys(obj) ==
  IF obj.k \in {"dict", "list"}
  THEN /\ obj.k = "dict" => \A i \in 1..Len(obj.keys) : ~str_in(<<".">>, obj.keys[i])
       /\ \A i \in 1..Len(obj.vals) : HasPlainKeys(obj.vals[i])
  ELSE TRUE

\* The question about the item at this path has been answered
QuestionAnswered(path) ==
  \E q \in 1..Len(clarifying_questions) :
    clarifying_questions[q].item_path = path /\ clarifying_questions[q].answered

\* ------------------------------------------------------------------------
\* Properties
\* ------------------------------------------------------------------------

\* C1: positional alignment on reassembly.  After reassembly every leaf of the
\* document holds the translation of the item that was segmented from it when that
\* item's translation was applied, and its original text otherwise: no value
\* lands in another item's leaf.
C1_PositionalAlignment ==
  Reassembled =>
    /\ Len(FinalLeaves) = Len(OriginalLeaves)
    /\ \A i \in 1..Len(OriginalLeaves) :
         LeafValue(FinalLeaves[i]) =
           IF IsApplicable(ItemOfLeaf(i)) THEN ItemOfLeaf(i).translated.text
           ELSE ItemOfLeaf(i).original

\* C2: brand preservation.  When the job is done, every leaf whose original text
\* contains a brand term of the job's brand-term set holds a value that contains
\* that term verbatim.
C2_BrandPreserved ==
  (job = "pipeline" /\ pc = "done" /\ Len(FinalLeaves) = Len(OriginalLeaves)) =>
    \A i \in 1..Len(OriginalLeaves) : \A t \in 1..Len(brand_terms) :
      str_in(brand_terms[t], LeafValue(OriginalLeaves[i]))
        => str_in(brand_terms[t], LeafValue(FinalLeaves[i]))

\* C3: every translation the revision stage produced is reviewed again before it
\* is written into the final document.  An item the revision stage last touched
\* has status revised, and only a review pass moves an item to approved, so the
\* values apply has used all belong to approved items.
C3_RevisedIsReviewedBeforeApply ==
  Reassembled =>
    \A b \in 1..Len(content_batches) : \A k \in 1..Len(content_batches[b].items) :
      IsApplicable(content_batches[b].items[k])
        => content_batches[b].items[k].status = "approved"

\* C4: an item marked needs_clarification is translated again once its question
\* has been answered.  When a translation pass has just run (the reviewer is
\* next), no item whose question is answered is still in needs_clarification.
C4_ClarifiedItemsRetranslated ==
  (job = "pipeline" /\ pc = "review") =>
    \A b \in 1..Len(content_batches) : \A k \in 1..Len(content_batches[b].items) :
      ~ /\ content_batches[b].items[k].status = "needs_clarification"
        /\ QuestionAnswered(content_batches[b].items[k].path)

\* C5: the batch loop ends only when every batch is approved or the iteration
\* budget is exhausted.
C5_LoopEndsOnlyWhenAllApproved ==
  (job = "pipeline" /\ pc = "apply") =>
    \/ \A b \in 1..Len(content_batches) : IsCompleted(content_batches[b].type)
    \/ times_looped >= max_iterations

\* C6: a batch is recorded in completed_batches only when every one of its items
\* has status approved.
C6_CompletedMeansAllApproved ==
  \A b \in 1..Len(content_batches) :
    IsCompleted(content_batches[b].type)
      => \A k \in 1..Len(content_batches[b].items) :
           content_batches[b].items[k].status = "approved"

\* C7: once a translation has been produced for an item, the final document holds
\* the latest translation of that item, whatever the state of its batch when the
\* loop ended.  Stated for documents whose paths name their leaves, so that a
\* misplaced write is not what decides it.
C7_TranslationReachesFinalDocument ==
  (Reassembled /\ HasPlainKeys(source_content)) =>
    \A i \in 1..Len(OriginalLeaves) :
      (ItemOfLeaf(i).translated # None /\ ItemOfLeaf(i).translated.text # << >>)
        => LeafValue(FinalLeaves[i]) = ItemOfLeaf(i).translated.text

\* The iteration budget of the loop this job runs, and the agents inside the loop
Budget == IF job = "pipeline" THEN max_iterations ELSE v1_max_iterations
InLoop == pc \in {"translate", "review", "revise", "v1_critic", "v1_refiner"}

C9_FailOpenOnDeadCapability ==
  (job = "pipeline" /\ capability_dead /\ HasPlainKeys(source_content)) =>
    /\ pc # "raised"
    /\ pc = "done" =>
         /\ \A i \in 1..Len(OriginalLeaves) :
              LeafValue(FinalLeaves[i]) = LeafValue(OriginalLeaves[i])

\* C10: structural fidelity.  The document reassembly produces has the same keys,
\* the same list lengths and the same nesting as the request's document; only the
\* value fields of translatable leaves may differ.
C10_StructuralFidelity ==
  (job = "pipeline" /\ pc \in {"output", "done"}) =>
    Shape(source_content) = Shape(parsed_content(user_input))


\* C11: the original document is never mutated.  The object that was supplied as
\* source content (the document analyze_and_route_content parsed and stored)
\* holds every original value at every point of the job: fast-track translation
\* and reassembly write into a copy.
C11_OriginalNeverMutated ==
  (job = "pipeline" /\ pc # "router" /\ user_input.kind # "bad_json")
    => original_document = parsed_content(user_input)

\* C12: length compliance.  Every item in status approved holds a translation no
\* longer than its max_chars, and after reassembly the leaf the item was
\* segmented from holds a value no longer than that budget.
C12_LengthCompliance ==
  /\ job = "pipeline" =>
       \A b \in 1..Len(content_batches) : \A k \in 1..Len(content_batches[b].items) :
         LET item == content_batches[b].items[k]
         IN  item.status = "approved"
               => item.translated # None /\ Len(item.translated.text) <= item.max_chars
  /\ (Reassembled /\ Len(FinalLeaves) = Len(OriginalLeaves)) =>
       \A i \in 1..Len(OriginalLeaves) :
         ItemOfLeaf(i).status = "approved"
           => Len(LeafValue(FinalLeaves[i])) <= ItemOfLeaf(i).max_chars

\* C13: Scenario C.  An item whose translation came back longer than its budget
\* is flagged by review and is never approved as it stands: it is not in status
\* approved, and its batch is recorded as approved only once the revision stage
\* has run on the item.
C13_OverBudgetIsRevisedFirst ==
  job = "pipeline" =>
    \A entry \in over_budget :
      LET item == content_batches[BatchIndex(entry[1])].items[entry[2]]
      IN  /\ item.status # "approved"
          /\ IsCompleted(entry[1]) => item.status = "revised"

\* C14: reassembly is fail-open on unresolvable paths.  The apply step never
\* raises: it always hands over to output, and every item to apply whose path
\* resolves in the document is written, whatever happened to the other items.
C14_ApplyIsFailOpen ==
  [][ (job = "pipeline" /\ pc = "apply") =>
        /\ pc' = "output"
        /\ \A k \in 1..Len(AllItems(content_batches, 1)) :
             LET item == AllItems(content_batches, 1)[k]
             IN  (/\ IsApplicable(item)
                  /\ SetAtPath(source_content, str_split(item.path, "."),
                               item.translated.text).st = "ok")
                   => \E j \in 1..Len(applied') :
                        applied'[j] = [path |-> item.path, text |-> item.translated.text]
    ]_vars

\* The answers of the rule table of answer_clarifying_question and its fallback
ContextAnswers ==
  {"Gaming action - translate as game play",
   "Video playback - translate as media play",
   "Poker bankroll - use gambling-specific translation",
   "Financial institution - use standard banking term",
   "Data table - use UI table translation",
   "Poker table - use gambling-specific translation",
   "Translate - maintain consistency with rest of interface",
   "Use context-appropriate translation maintaining brand consistency"}

\* C15: every clarifying question is answered exactly once.  A question is
\* unanswered only between the translation step that created it and the review
\* step that follows; that review step answers every open question with a
\* non-empty answer of the rule table or the fallback and hands over to the next
\* step; an answered question keeps its answer for the rest of the run.
C15_QuestionsAnsweredOnce ==
  [][ job = "pipeline" =>
        /\ \A q \in 1..Len(clarifying_questions) :
             clarifying_questions[q].answered =>
               /\ q <= Len(clarifying_questions')
               /\ clarifying_questions'[q] = clarifying_questions[q]
        /\ \A q \in 1..Len(clarifying_questions') :
             IF clarifying_questions'[q].answered
             THEN clarifying_questions'[q].answer \in ContextAnswers
             ELSE /\ pc = "translate"
                  /\ pc' = "review"
                  /\ q > Len(clarifying_questions)
        /\ (pc = "review" /\ \E q \in 1..Len(clarifying_questions) :
                               ~clarifying_questions[q].answered)
             => pc' \in {"revise", "apply"}
    ]_vars

\* A review step has just answered a question that the translation step asked
C15_QuestionAnswered ==
  /\ job = "pipeline"
  /\ pc = "revise"
  /\ \E q \in 1..Len(clarifying_questions) :
       /\ clarifying_questions[q].answered
       /\ clarifying_questions[q].answer = "Poker table - use gambling-specific translation"
  /\ \E q \in 1..Len(clarifying_questions) :
       clarifying_questions[q].answer
         = "Use context-appropriate translation maintaining brand consistency"

\* C16: revision changes only the translation and the status of items of the
\* current batch that are in needs_revision and are named by a finding: across
\* revise_batch_translation every other item of every batch stays as it was.
C16_ReviseTouchesOnlyFlaggedItems ==
  [][ (job = "pipeline" /\ pc = "revise") =>
        /\ Len(content_batches') = Len(content_batches)
        /\ \A b \in 1..Len(content_batches) :
             /\ content_batches'[b].type = content_batches[b].type
             /\ Len(content_batches'[b].items) = Len(content_batches[b].items)
             /\ \A k \in 1..Len(content_batches[b].items) :
                  LET item == content_batches[b].items[k]
                      revised == content_batches'[b].items[k]
                  IN  \/ revised = item
                      \/ /\ content_batches[b].type = current_batch
                         /\ item.status = "needs_revision"
                         /\ \E j \in 1..Len(batch_feedback) : batch_feedback[j].path = item.path
                         /\ revised = [item EXCEPT !.translated = revised.translated,
                                                   !.status = revised.status]
    ]_vars

\* A revision has rewritten one item of a batch and left an approved item of
\* the same batch alone
C16_RevisedBesideApproved ==
  /\ job = "pipeline"
  /\ pc = "translate"
  /\ times_looped > 0
  /\ \E b \in 1..Len(content_batches) :
       /\ \E k \in 1..Len(content_batches[b].items) :
            content_batches[b].items[k].status = "revised"
       /\ \E k \in 1..Len(content_batches[b].items) :
            content_batches[b].items[k].status = "approved"

\* The first failing check of a translation in the order empty output, brand
\* term lost, length exceeded; "later" when the three of them pass
FirstFailingCheck(original, translated, max_chars) ==
  IF Len(str_strip(translated)) = 0 THEN "empty_output"
  ELSE IF \E b \in 1..Len(REVIEW_BRAND_TERMS) :
            str_in(REVIEW_BRAND_TERMS[b], original) /\ ~str_in(REVIEW_BRAND_TERMS[b], translated)
  THEN "brand_term_lost"
  ELSE IF Len(translated) > max_chars THEN "length_exceeded"
  ELSE "later"

\* C17: review yields at most one finding per item per pass, and the finding is
\* that of the first failing check in the order empty output, brand term lost,
\* length exceeded, quality issue: after a review pass every finding of the
\* batch feedback names the first check its translation fails, and there are
\* no more findings than items sent back for revision.
C17_FirstFailingCheckWins ==
  (job = "pipeline" /\ pc = "revise" /\ current_batch # "None" /\ BatchIndex(current_batch) # 0) =>
    LET items == content_batches[BatchIndex(current_batch)].items
        flagged == {k \in 1..Len(items) : items[k].status = "needs_revision"}
    IN  /\ Len(batch_feedback) <= Cardinality(flagged)
        /\ \A j \in 1..Len(batch_feedback) :
             \E k \in flagged :
               /\ items[k].path = batch_feedback[j].path
               /\ items[k].translated.text = batch_feedback[j].current_translation
               /\ LET first == FirstFailingCheck(items[k].original, items[k].translated.text,
                                                 items[k].max_chars)
                  IN  batch_feedback[j].issue
                        = (IF first = "later" THEN "quality_issue" ELSE first)

\* The output handed to the validator has no "items", or a list of items whose
\* length is not that of the batch
ItemsMissing == py_in(k_items, translation_json) = "no"
ItemsMiscounted ==
  /\ translation_json.k = "dict"
  /\ KeyIn(k_items, translation_json)
  /\ DictGet(translation_json, k_items).k = "list"
  /\ Len(DictGet(translation_json, k_items).vals) # Len(validator_batch.items)

\* C18: when the translation output of a batch has no items, or a number of
\* items other than the batch's, validate_translation_length returns one
\* batch-level error with valid = false and reports no per-item violation.
C18_CountMismatchShortCircuits ==
  (job = "validator" /\ pc # "validate" /\ (ItemsMissing \/ ItemsMiscounted)) =>
    /\ pc = "done"
    /\ validation_result.raised = "none"
    /\ validation_result.valid = FALSE
    /\ validation_result.keys = {"valid", "error"}
    /\ validation_result.violations = << >>
    /\ validation_result.error =
         (IF ItemsMissing
          THEN [kind |-> "missing_items"]
          ELSE [kind |-> "item_count_mismatch",
                expected |-> Len(validator_batch.items),
                got |-> Len(DictGet(translation_json, k_items).vals)])

\* Three translated items, the first of them without a value, were validated
\* against a batch of four
C18_ThreeItemsForFour ==
  /\ job = "validator"
  /\ pc = "done"
  /\ ItemsMiscounted
  /\ Len(validator_batch.items) = 4
  /\ Len(DictGet(translation_json, k_items).vals) = 3
  /\ py_in(k_value, DictGet(translation_json, k_items).vals[1]) = "no"
  /\ validation_result.error.kind = "item_count_mismatch"

\* The least number of stages of three that hold n batches
StagesOfThree(n) == CHOOSE s \in 0..n : 3 * s >= n /\ 3 * (s - 1) < n

\* C19: staged parallelism.  The translators of the n batches are split into
\* ceil(n/3) stages of consecutive batches, at most 3 per stage, every batch in
\* exactly one stage; never more than 3 translations are in flight, those in
\* flight belong to the stage that runs, and while a stage runs every
\* translator of the stages before it has delivered its result.
C19_StagedParallelism ==
  job \in {"staged", "staged_test"} =>
    /\ num_parallel_groups(num_batches) = StagesOfThree(num_batches)
    /\ \A i \in 1..num_batches :
         \E g \in 0..(num_parallel_groups(num_batches) - 1) :
           /\ i \in group_agents(g, num_batches)
           /\ \A h \in 0..(num_parallel_groups(num_batches) - 1) :
                i \in group_agents(h, num_batches) => h = g
    /\ \A g \in 0..(num_parallel_groups(num_batches) - 1) :
         /\ Cardinality(group_agents(g, num_batches)) \in 1..3
         /\ group_agents(g, num_batches) \subseteq 1..num_batches
         /\ \A i \in group_agents(g, num_batches) :
              \A j \in 1..num_batches :
                (\E h \in 0..(g - 1) : j \in group_agents(h, num_batches)) => j < i
    /\ Cardinality(in_flight) <= 3
    /\ parallel_group \in 0..num_parallel_groups(num_batches)
    /\ in_flight # {} =>
         /\ parallel_group >= 1
         /\ in_flight \subseteq group_agents(parallel_group - 1, num_batches)
    /\ \A g \in 0..(parallel_group - 2) :
         \A i \in group_agents(g, num_batches) : OutputKey(i) \in DOMAIN session_state

\* The second stage of seven batches runs with its three translators in flight
C19_SecondStageInFlight ==
  /\ job = "staged_test"
  /\ num_batches = 7
  /\ pc = "staged_run"
  /\ parallel_group = 2
  /\ in_flight = {4, 5, 6}
  /\ \A i \in 1..3 : OutputKey(i) \in DOMAIN session_state

\* C20: concurrent batch translators never write the same result slot.  The
\* output keys of distinct batches are distinct, the session holds no
\* translation_ key but these, and the value under the key of a batch is the one its own
\* translator produced, under every interleaving of the translators of a stage;
\* once the last stage has ended every batch has its value.
C20_OwnOutputKeyOnly ==
  job \in {"staged", "staged_test"} =>
    /\ \A i, j \in 1..num_batches : i # j => OutputKey(i) # OutputKey(j)
    /\ \A key \in DOMAIN session_state :
         \/ key \in {OutputKey(i) : i \in 1..num_batches}
         \/ /\ ~str_startswith(key, translation_prefix)
            /\ session_state[key].by = 0
    /\ \A i \in 1..num_batches :
         /\ OutputKey(i) \in DOMAIN session_state =>
              /\ session_state[OutputKey(i)].by = i
              /\ i \notin in_flight
         /\ pc \in {AfterStages, "batch_regeneration", "final_refinement", "run_ended"}
              => OutputKey(i) \in DOMAIN session_state

\* The nine translators of the three stages have all delivered, the second of
\* them with another text than the first
C20_AllNineDelivered ==
  /\ job = "staged"
  /\ pc = AfterStages
  /\ Cardinality(DOMAIN session_state) = 9
  /\ session_state[OutputKey(1)].text = c_hola
  /\ session_state[OutputKey(2)].text = c_long
  /\ session_state[OutputKey(9)].by = 9

\* ------------------------------------------------------------------------
\* Claims C21 to C30
\* ------------------------------------------------------------------------

\* The agents of root_agent that follow the staged translators, in order
LaterAgents == <<"ParallelBatchReviewer", "BatchRegenerationAgent", "FinalRefinementAgent">>

\* In the staged workflow the review, regeneration and refinement agents have
\* run in this order, each at most once, and the first of them only once every
\* translator of every stage had delivered
StagedBarrier ==
  job = "staged" =>
    /\ Len(agent_events) <= 3
    /\ agent_events = SubSeq(LaterAgents, 1, Len(agent_events))
    /\ pc = "batch_review" => agent_events = << >>
    /\ pc = "batch_regeneration" => agent_events = SubSeq(LaterAgents, 1, 1)
    /\ pc = "final_refinement" => agent_events = SubSeq(LaterAgents, 1, 2)
    /\ pc = "run_ended" => agent_events = LaterAgents
    /\ pc \in {"staged_start", "staged_run"} => agent_events = << >>
    /\ (pc \in {"batch_review", "batch_regeneration", "final_refinement", "run_ended"}
          \/ agent_events # << >>)
         => /\ in_flight = {}
            /\ parallel_group = 3
            /\ \A i \in 1..9 : OutputKey(i) \in DOMAIN session_state

\* In the batch pipeline a step of the loop is followed by the next one of
\* translate, review, revise, and apply follows only the end of the loop: a
\* review that asked for the exit, or the revision of the last iteration
PipelineOrder ==
  job = "pipeline" =>
    /\ pc = "translate" => pc' = "review"
    /\ pc = "review" => pc' \in {"revise", "apply"}
    /\ pc = "revise" => pc' \in {"translate", "apply"}
    /\ pc' = "review" => pc = "translate"
    /\ pc' = "revise" => pc = "review"
    /\ pc' = "translate" => pc \in {"conditional", "revise"}
    /\ pc' = "apply" =>
         \/ pc = "review" /\ review_result' = "EXIT"
         \/ pc = "revise" /\ times_looped' = max_iterations
    /\ pc = "apply" => pc' \in {"output", "raised"}
    /\ times_looped' \in {times_looped, times_looped + 1}
    /\ times_looped' # times_looped => pc = "revise"

\* C21: stage ordering and barrier.  In the staged workflow review starts only
\* after all batch translators of all stages have finished, regeneration only
\* after review, final refinement only after regeneration, each exactly once;
\* in the batch pipeline every loop iteration runs translate, review, revise in
\* that order and apply runs only after the loop has ended.
C21_StageOrdering == [](StagedBarrier) /\ [][PipelineOrder]_vars

\* The staged workflow has run to its end: nine translators in three stages,
\* then the three later agents
C21_StagedWorkflowEnded ==
  /\ job = "staged"
  /\ pc = "run_ended"
  /\ agent_events = LaterAgents
  /\ \A i \in 1..9 : session_state[OutputKey(i)].by = i

\* C22: job output shape.  A response of translate_sections has total_sections
\* equal to the number of request sections, the section_id of the request
\* section at every position, and for every section a content list of the same
\* length and with the same type tags as the request section's.
C22_OutputShape ==
  (job = "sections" /\ pc = "done" /\ api_response.status = 200) =>
    /\ api_response.total_sections = Len(request)
    /\ Len(api_response.translated_sections) = Len(request)
    /\ \A i \in 1..Len(request) :
         LET translated == api_response.translated_sections[i]
         IN  /\ translated.section_id = request[i].section_id
             /\ Len(translated.content) = Len(request[i].content)
             /\ \A j \in 1..Len(request[i].content) :
                  translated.content[j].type = request[i].content[j].type

\* The translator of section i of the request left no translation, and the
\* number of values its translation holds for the content items otherwise
HasNoOutput(i) == translation_data(session_state, i).text = << >>
ValuesForContent(i) ==
  LET items == translated_items(translation_data(session_state, i)).obj
  IN  IF request[i].display_title.some /\ request[i].display_title.text # << >> /\ Truthy(items)
      THEN PyLen(items) - 1 ELSE PyLen(items)

\* C23: an item for which no translation is available keeps its original
\* value: in a response of translate_sections, every content item of a section
\* without translation output, and every content item beyond the values the
\* translation holds, has the value of the request.
C23_UntranslatedKeepsOriginal ==
  (job = "sections" /\ pc = "done" /\ api_response.status = 200) =>
    \A i \in 1..Len(request) :
      \A j \in 1..Len(request[i].content) :
        (HasNoOutput(i) \/ j > ValuesForContent(i)) =>
          /\ j <= Len(api_response.translated_sections[i].content)
          /\ api_response.translated_sections[i].content[j].value = request[i].content[j].value

\* C24: defensive parsing.  Whatever the translators left in the state,
\* reading the translations back does not raise: once the run of root_agent has
\* ended normally, translate_sections returns a response.
C24_ParsingNeverRaises ==
  (job = "sections" /\ pc = "done" /\ agent_events = LaterAgents) => api_response.status = 200

\* C25: a capability failure during the translation of a batch is not recorded
\* as a successful translation.  When every call to the generative model has
\* raised, each item the first translation step has given a text is in
\* needs_revision and named by a finding of the batch feedback.
C25_FailedTranslationIsFlagged ==
  (/\ job = "pipeline"
   /\ pc = "review"
   /\ times_looped = 0
   /\ capability_dead
   /\ current_batch # "None"
   /\ BatchIndex(current_batch) # 0) =>
    LET items == content_batches[BatchIndex(current_batch)].items
    IN  \A k \in 1..Len(items) :
          items[k].translated # None =>
            /\ items[k].status = "needs_revision"
            /\ \E j \in 1..Len(batch_feedback) : batch_feedback[j].path = items[k].path

\* What the translation step stores for an item when its call to the
\* generative model raises: the fallback translation, put through the glossary
\* and brand rules
TextAfterFailure(item) ==
  BrandsFrom(GlossaryFrom(fallback_translation(item.original, target_language),
                          target_language, glossary, 1),
             item.original, brand_terms, 1)

\* Every text in the batches is the one a stage produces after catching the
\* exception of the model
FailuresAreCaught ==
  (job = "pipeline" /\ capability_dead) =>
    \A b \in 1..Len(content_batches) :
      \A k \in 1..Len(content_batches[b].items) :
        LET item == content_batches[b].items[k]
        IN  item.translated # None =>
              item.translated.text \in {TextAfterFailure(item),
                                        str_prefix(item.original, item.max_chars)}

\* A stage of the pipeline before reassembly hands over to a stage of the
\* pipeline
StagesReturn ==
  (job = "pipeline" /\ pc \in {"router", "conditional", "translate", "review", "revise"})
    => pc' \in {"conditional", "translate", "review", "revise", "apply"}

\* C26: no capability exception propagates as a job failure.  An exception of
\* the generative model during translation, shortening, quality review or
\* revision is caught inside the stage: the stage returns normally with its
\* fallback text, and the loop and reassembly go on.
C26_CapabilityFailureIsCaught == [](FailuresAreCaught) /\ [][StagesReturn]_vars

\* With every call to the model raising, the loop has ended and reassembly has
\* written the fallback text of an approved item
C26_ReassembledAfterFailures ==
  /\ job = "pipeline"
  /\ capability_dead
  /\ pc = "output"
  /\ applied # << >>
  /\ \E b \in 1..Len(content_batches) :
       \E k \in 1..Len(content_batches[b].items) :
         /\ content_batches[b].items[k].status = "approved"
         /\ content_batches[b].items[k].translated.text
              = TextAfterFailure(content_batches[b].items[k])
         /\ content_batches[b].items[k].translated.text # content_batches[b].items[k].original

\* C27: a malformed input document is rejected and never partially processed.
\* For an input that looks like JSON and does not parse, the router writes
\* nothing to the state, and no later stage segments, translates or outputs
\* anything: the state stays as the session was created, with no final output.
C27_MalformedInputIsRejected ==
  (job = "pipeline" /\ user_input.kind = "bad_json") =>
    /\ SessionState
    /\ original_document = EmptyDict


\* The places (batch, item) of the batches organize_content_into_batches stored,
\* and of the batches create_batches returned
SegmentedPlaces ==
  UNION {{<<b, i>> : i \in 1..Len(content_batches[b].items)} : b \in 1..Len(content_batches)}
ProcessorPlaces ==
  UNION {{<<b, i>> : i \in 1..Len(processor_batches[b].items)} : b \in 1..Len(processor_batches)}

\* The translatable leaves of a document, at any depth, by position in the walk
LeafPaths(document) ==
  {Leaves(document, << >>)[n].path : n \in 1..Len(Leaves(document, << >>))}

\* C28: segmentation covers the document exactly once.  Every translatable leaf
\* of the document (a mapping with both type and value, at any depth, lists
\* walked element by element) is one item of one batch, and two different
\* items never carry the same path or id, so the batches' path sets are
\* disjoint.
C28_SegmentationCoversExactlyOnce ==
  /\ (job = "pipeline" /\ workflow_path # "fast_track" /\ pc \notin {"router", "conditional"}) =>
       /\ Cardinality(SegmentedPlaces) = count_translatable_items(original_document)
       /\ \A p, q \in SegmentedPlaces :
            p # q => content_batches[p[1]].items[p[2]].path # content_batches[q[1]].items[q[2]].path
  /\ (job = "batches" /\ pc = "batches_returned") =>
       /\ Cardinality(ProcessorPlaces) = count_translatable_items(content_file)
       /\ \A p, q \in ProcessorPlaces :
            p # q => processor_batches[p[1]].items[p[2]].id # processor_batches[q[1]].items[q[2]].id

\* What segmentation decides about a batch: its type and, item by item in order,
\* everything but the translation and its status
Segmented(batches) ==
  [b \in 1..Len(batches) |->
     [type |-> batches[b].type,
      items |-> [i \in 1..Len(batches[b].items) |->
                   [path |-> batches[b].items[i].path,
                    original |-> batches[b].items[i].original,
                    type |-> batches[b].items[i].type,
                    content_category |-> batches[b].items[i].content_category,
                    original_length |-> batches[b].items[i].original_length,
                    max_chars |-> batches[b].items[i].max_chars]]]]

\* The batches in the state are the ones a fresh segmentation of the same
\* document gives: in the pipeline all through the loop, until reassembly
\* writes into the document
SameAsFreshSegmentation ==
  /\ (job = "pipeline" /\ workflow_path # "fast_track"
        /\ pc \in {"translate", "review", "revise", "apply"}) =>
       Segmented(content_batches) = Segmented(BatchesOf(original_document))
  /\ (job = "batches" /\ pc = "batches_returned") =>
       processor_batches = create_batches_by_group(content_file).batches

\* A run of create_batches after the first one ends as the first one did and
\* leaves the batches and the loaded document as they were
SecondRunSameBatches ==
  (job = "batches" /\ create_batches_calls > 0) =>
    /\ processor_batches' = processor_batches
    /\ content_data' = content_data
    /\ pc' = pc

\* C29: segmentation is deterministic and idempotent.  The batches in the state
\* always equal a fresh segmentation of the same document (same batches, same
\* paths and ids, same item order, same batch order), and running
\* create_batches again gives the batches of the first run whatever that run
\* left behind.
C29_SegmentationIsIdempotent == [](SameAsFreshSegmentation) /\ [][SecondRunSameBatches]_vars

\* create_batches has run twice on a document with two groups of items
C29_SegmentedTwice ==
  /\ job = "batches"
  /\ create_batches_calls = 2
  /\ pc = "batches_returned"
  /\ Len(processor_batches) = 2

\* The content categories of the leaves of a document
CategoriesWithItems(document) ==
  {classify_content_type(Leaves(document, << >>)[n].obj, Leaves(document, << >>)[n].path) :
     n \in 1..Len(Leaves(document, << >>))}

\* The groups of a content file that hold a translatable item as a direct child
GroupsWithItems(file) ==
  IF ~KeyIn(k_pages, file) THEN {}
  ELSE LET pages == DictGet(file, k_pages)
       IN  {g \in 1..Len(pages.keys) :
              /\ pages.vals[g].k = "dict"
              /\ \E i \in 1..Len(pages.vals[g].vals) : IsTranslatable(pages.vals[g].vals[i])}

\* C30: a group or category without a translatable item gives no batch.  Every
\* batch segmentation returns has at least one item, its total_items is the
\* number of its items, and there are as many batches as there are groups (or
\* content categories) that hold a translatable item.
C30_OneBatchPerGroupWithItems ==
  /\ (job = "pipeline" /\ workflow_path # "fast_track"
        /\ pc \in {"translate", "review", "revise", "apply"}) =>
       /\ \A b \in 1..Len(content_batches) : content_batches[b].items # << >>
       /\ Len(content_batches) = Cardinality(CategoriesWithItems(original_document))
  /\ (job = "batches" /\ pc = "batches_returned") =>
       /\ \A b \in 1..Len(processor_batches) :
            /\ processor_batches[b].items # << >>
            /\ processor_batches[b].total_items = Len(processor_batches[b].items)
       /\ Len(processor_batches) = Cardinality(GroupsWithItems(content_file))

\* ------------------------------------------------------------------------
\* Claims C31 to C39
\* ------------------------------------------------------------------------

\* The base factor of a target language in hundredths, as the specification
\* lists it
BaseFactor(language) ==
  CASE language = "Spanish"    -> 125
    [] language = "French"     -> 130
    [] language = "German"     -> 140
    [] language = "Portuguese" -> 125
    [] language = "Italian"    -> 120
    [] OTHER                   -> 130

\* The budget the specification gives: 2n, floor(n * (b + 0.3)) or floor(n * b)
SpecifiedBudget(n, language) ==
  IF n <= 10 THEN 2 * n
  ELSE IF n <= 30 THEN (n * (BaseFactor(language) + 30)) \div 100
  ELSE (n * BaseFactor(language)) \div 100

\* C31: the length budget of an original of length n for target language L is
\* 2n when n <= 10, floor(n * (b + 0.3)) when 10 < n <= 30 and floor(n * b)
\* when n > 30, b being the base factor of L; so it is never below n, and
\* length 8 gives 16.
C31_LengthBudget ==
  (job = "max_chars" /\ pc = "max_chars_returned") =>
    /\ max_chars_returned = SpecifiedBudget(max_chars_call.original_length, max_chars_call.target_language)
    /\ max_chars_returned >= max_chars_call.original_length
    /\ max_chars_call.original_length = 8 => max_chars_returned = 16

\* The messages in state["regeneration_feedback"], one per flagged batch
RegenerationFeedback ==
  IF KeyIn(k_regeneration_feedback, callback_state)
  THEN DictGet(callback_state, k_regeneration_feedback).vals
  ELSE << >>

\* The pipeline's stored findings are those of the latest review pass and wait
\* for the revision pass that follows it
PipelineFindingsEphemeral ==
  job = "pipeline" =>
    /\ pc # "revise" => batch_feedback = << >>
    /\ \A f \in 1..Len(batch_feedback) :
         \E b \in 1..Len(content_batches) :
           /\ content_batches[b].type = current_batch
           /\ \E i \in 1..Len(content_batches[b].items) :
                /\ content_batches[b].items[i].path = batch_feedback[f].path
                /\ content_batches[b].items[i].status = "needs_revision"

\* The callbacks' stored findings are those of the latest flagging pass only
CallbackFindingsEphemeral ==
  job = "callback" =>
    /\ Len(RegenerationFeedback) <= 1
    /\ \A n \in 1..Len(callback_log) :
         (callback_log[n].flagged /\ \A o \in (n + 1)..Len(callback_log) : ~callback_log[o].flagged)
           => RegenerationFeedback = <<callback_batches[callback_log[n].batch].group_name>>

\* C32: review findings are ephemeral.  Each review pass replaces the findings
\* of the pass before instead of adding to them, the next revision pass
\* consumes them, and after that revision pass the stored feedback is empty, so
\* no finding is applied in two revision passes.
C32_FindingsAreEphemeral == PipelineFindingsEphemeral /\ CallbackFindingsEphemeral

\* The record state[key] a callback wrote for a flagged output, if key is one
IsViolationsRecord(n) ==
  /\ callback_state.vals[n].k = "dict"
  /\ KeyIn(k_batch_id, callback_state.vals[n])

\* C39: the length-validation callback created for batch B checks the output of
\* batch B only.  Whatever other translation_* keys are in the state and in
\* whatever order the translators ended, the key the callback takes is B's
\* output key translation_<B>, and every violations record in the state is
\* stored under <B's output key>_length_violations for the batch_id it names.
C39_CallbackChecksOwnBatch ==
  job = "callback" =>
    /\ \A n \in 1..Len(callback_log) :
         callback_log[n].key = translation_prefix \o int_str(callback_log[n].batch)
    /\ \A n \in 1..Len(callback_state.keys) :
         IsViolationsRecord(n) =>
           \E b \in 1..Len(callback_batches) :
             /\ DictGet(callback_state.vals[n], k_batch_id) = Str(callback_batches[b].batch_id)
             /\ callback_state.keys[n]
                  = translation_prefix \o int_str(b)
                      \o <<"_","l","e","n","g","t","h","_","v","i","o","l","a","t","i","o","n","s">>

\* C33: translate_website returns a results record whose batch_results holds
\* exactly one entry per batch, in batch order; a batch whose translation
\* raises is recorded with status error and an empty items list, and the
\* batches after it are still processed.
C33_OneResultPerBatch ==
  (job = "website" /\ pc # "website") =>
    /\ website_results.returned
    /\ Len(website_results.batch_results) = Len(processor_batches)
    /\ \A i \in 1..Len(processor_batches) :
         /\ website_results.batch_results[i].batch_id = processor_batches[i].batch_id
         /\ website_results.batch_results[i].status = "error"
              => website_results.batch_results[i].items = << >>

\* The translatable leaves of the request: 1 for plain text
RequestLeaves ==
  IF user_input.kind = "text" THEN 1 ELSE count_translatable_items(user_input.doc)

\* After the router, the path is fast_track with change_type small exactly for
\* requests of at most 5 leaves, and batch_pipeline with large for the others
RoutedBySize ==
  (job \in {"pipeline", "router"} /\ pc # "router" /\ user_input.kind # "bad_json") =>
    IF RequestLeaves <= 5
    THEN workflow_path = "fast_track" /\ change_type = "small"
    ELSE workflow_path = "batch_pipeline" /\ change_type = "large"

\* The step of ConditionalTranslationAgent translates on the fast track and
\* builds no batch, and organises batches on any other path and translates
\* nothing
ConditionalStep ==
  (job = "pipeline" /\ pc = "conditional" /\ pc' # "conditional") =>
    IF workflow_path = "fast_track"
    THEN /\ content_batches' = content_batches
         /\ {translations'[n].path : n \in 1..Len(translations')} = LeafPaths(original_document)
    ELSE /\ translations' = translations
         /\ source_content' = source_content
         /\ content_batches' = BatchesOf(source_content)

\* C34: routing.  analyze_and_route_content selects fast_track (change_type
\* small) exactly when the document has at most 5 translatable leaves, a plain
\* text counting as one leaf, and batch_pipeline (change_type large)
\* otherwise; fast-track translation runs only on fast_track and batch
\* organisation only on the other paths.
C34_RoutingBySize == [](RoutedBySize) /\ [][ConditionalStep]_vars

\* A document of exactly 5 leaves has been routed to the fast track
C34_FiveLeavesOnFastTrack ==
  /\ job = "router"
  /\ pc = "conditional"
  /\ user_input.kind = "json"
  /\ RequestLeaves = 5
  /\ workflow_path = "fast_track"

\* On the fast track, past the translation: the loop and the apply step run
FastTrackTranslated ==
  job = "pipeline" /\ workflow_path = "fast_track" /\ pc \in {"translate", "review", "revise", "apply"}

\* On the fast track no batch, question or feedback exists
NothingForTheLoop ==
  (job = "pipeline" /\ workflow_path = "fast_track") =>
    /\ content_batches = << >>
    /\ clarifying_questions = << >>
    /\ batch_feedback = << >>
    /\ completed_batches = << >>

\* A step of the loop or of apply on the fast track keeps the translated content
\* and the translations map
LoopKeepsFastTrackResult ==
  FastTrackTranslated =>
    /\ source_content' = source_content
    /\ translations' = translations

\* C35: on the fast track the batch processing loop and the apply step change
\* nothing that fast-track translation produced.  The translated source content
\* and the translations map are after the loop and apply what they were right
\* after fast_track_translate, and no batch, question or feedback is created.
C35_FastTrackResultKept == [](NothingForTheLoop) /\ [][LoopKeepsFastTrackResult]_vars

\* The fast track has translated a document, and the loop and apply have run
C35_FastTrackPastApply ==
  /\ job = "pipeline"
  /\ workflow_path = "fast_track"
  /\ pc = "output"
  /\ times_looped = max_iterations
  /\ Len(translations) = 3
  /\ source_content # parsed_content(user_input)

\* The status changes an item may undergo
StatusMoves ==
  {<<"pending", "translated">>, <<"pending", "needs_clarification">>,
   <<"translated", "approved">>, <<"translated", "needs_revision">>,
   <<"needs_revision", "revised">>}

\* A step that keeps the segmentation changes every item's status along
\* StatusMoves or not at all, and leaves the translation of an approved item
ItemsMoveForward ==
  (job = "pipeline" /\ content_batches # << >> /\ content_batches' # << >>) =>
    \A b \in 1..Len(content_batches) :
      \A i \in 1..Len(content_batches[b].items) :
        LET before == content_batches[b].items[i]
            after == content_batches'[b].items[i]
        IN  /\ before.status # after.status => <<before.status, after.status>> \in StatusMoves
            /\ before.status = "approved" => after.translated = before.translated

\* C36: the status of an item moves only along pending -> translated,
\* pending -> needs_clarification, translated -> approved,
\* translated -> needs_revision and needs_revision -> revised; approved and
\* revised are terminal, and the translation of an approved item never changes
\* afterwards, whatever the sequence of translate, review and revise calls.
C36_StatusMovesForward == [][ItemsMoveForward]_vars

\* Every status of the cycle but pending is present at once, after a revision
C36_AllStatusesSeen ==
  /\ job = "pipeline"
  /\ pc = "translate"
  /\ times_looped > 0
  /\ \A s \in {"approved", "revised", "needs_clarification"} :
       \E b \in 1..Len(content_batches) :
         \E i \in 1..Len(content_batches[b].items) : content_batches[b].items[i].status = s

\* C37: in the batch pipeline every translation stored on an item is at most
\* max_chars long at every reachable state, whatever the model returns or
\* raises: the translation stage replaces an over-long result by one cut to
\* max_chars, and revision cuts its result to max_chars or keeps the previous
\* translation.
C37_StoredTranslationWithinBudget ==
  job = "pipeline" =>
    \A b \in 1..Len(content_batches) :
      \A i \in 1..Len(content_batches[b].items) :
        content_batches[b].items[i].translated # None
          => Len(content_batches[b].items[i].translated.text)
               <= content_batches[b].items[i].max_chars

\* An item of the batch pipeline whose first translation was longer than its
\* budget holds a translation of exactly max_chars characters
C37_OverlongResultWasCut ==
  /\ job = "pipeline"
  /\ \E b \in 1..Len(content_batches) :
       \E i \in 1..Len(content_batches[b].items) :
         LET item == content_batches[b].items[i]
         IN  /\ item.translated # None
             /\ Len(item.translated.text) = item.max_chars
             /\ item.max_chars > 0
             /\ item.translated.text # item.original

\* The groups of the content file are keyed group_1, group_2, ... in order (a
\* page name aside)
GroupsNumbered(data) ==
  /\ KeyIn(k_pages, data)
  /\ DictGet(data, k_pages).k = "dict"
  /\ LET pages == DictGet(data, k_pages)
         group_keys == SelectSeq(pages.keys, LAMBDA k : k # k_name)
     IN  \A g \in 1..Len(group_keys) : group_keys[g] = post_processing_group_key(g)

\* C38: batch number i of the list create_batches returns comes from the group
\* keyed group_<i>, and item k of that batch is the k-th key of that group that
\* post-processing treats as translatable, so item k of translation_<i> is
\* written into the leaf it was produced from; this for every document whose
\* groups may lack meta_data, hold no items, or hold nodes with a value and no
\* type.
C38_BatchNumberMatchesGroup ==
  (job = "batches" /\ pc = "batches_returned" /\ GroupsNumbered(content_data)) =>
    \A i \in 1..Len(processor_batches) :
      LET batch == processor_batches[i]
          group_key == post_processing_group_key(i)
          pages == DictGet(content_data, k_pages)
      IN  /\ batch.group_id = group_key
          /\ LET keys == translatable_keys(DictGet(pages, group_key), 1)
             IN  \A k \in 1..Len(batch.items) :
                   /\ k <= Len(keys)
                   /\ batch.items[k].id = group_key \o <<"_">> \o keys[k]

====
